---- MODULE Spec2Model ----
(***************************************************************************)
(* Mosaic Studio: the mosaic pixel engine (utils/mosaic.ts), the GIF       *)
(* decode / encode wrappers (utils/gif.ts) and the file / export handlers  *)
(* of the React component (App.tsx).                                       *)
(*                                                                         *)
(* Numbers: JavaScript doubles are modelled by integers.  A value given    *)
(* to quantize is carried in units of 1 / Unit; Math.round(x) is           *)
(* floor(x + 1/2).  The double sum 0.299 r + 0.587 g + 0.114 b is not      *)
(* always the exact one: it is modelled as the exact sum moved by one unit *)
(* in the direction the double arithmetic rounds for that triple.          *)
(***************************************************************************)
EXTENDS Integers, Sequences, FiniteSets, TLC

(***************************************************************************)
(* Bounds of the model                                                     *)
(***************************************************************************)
\* largest width / height of a source buffer given to processFrame
MaxDim == 3
\* largest in-range pixelSize tried on processFrame
MaxBlock == 4
\* largest declared GIF delay (centiseconds) tried on parseGif
MaxDelayCs == 6
\* largest number of frames of a GIF file
MaxFrames == 3
\* number of files selected in one run of the component
MaxLoads == 1
\* number of export clicks in one run of the component
MaxExports == 1

(***************************************************************************)
(* Program constants                                                       *)
(***************************************************************************)
\* MosaicOptions.pixelSize "(2-50)", slider min / max
MinPixelSize == 2
MaxPixelSize == 50
\* MosaicOptions.levels "(2-8)", slider min / max
MinLevels == 2
MaxLevels == 8

NoPalette == [name |-> "undefined", colors |-> <<>>]

DEFAULT_OPTIONS == [pixelSize |-> 8, colorMode |-> "grayscale", levels |-> 4,
                    palette |-> NoPalette]

PALETTES ==
  << [name |-> "Game Boy",
      colors |-> << <<15, 56, 15>>, <<48, 98, 48>>, <<139, 172, 15>>, <<155, 188, 15>> >>],
     [name |-> "NES",
      colors |-> << <<0, 0, 0>>, <<255, 255, 255>>, <<124, 124, 124>>, <<188, 188, 188>>,
                    <<0, 0, 252>>, <<0, 120, 248>>, <<104, 136, 252>>, <<152, 120, 248>>,
                    <<216, 40, 0>>, <<248, 56, 0>>, <<248, 120, 88>>, <<248, 184, 0>>,
                    <<0, 168, 0>>, <<0, 184, 0>>, <<88, 216, 84>>, <<0, 168, 68>> >>],
     [name |-> "cyberpunk",
      colors |-> << <<10, 10, 20>>, <<20, 10, 40>>, <<60, 0, 80>>, <<120, 0, 120>>,
                    <<200, 0, 200>>, <<255, 0, 128>>, <<0, 255, 255>>, <<0, 200, 200>>,
                    <<255, 255, 0>>, <<255, 100, 0>>, <<255, 255, 255>> >>],
     [name |-> "retro brown",
      colors |-> << <<30, 20, 15>>, <<60, 40, 25>>, <<100, 70, 40>>, <<140, 100, 60>>,
                    <<180, 140, 90>>, <<210, 180, 130>>, <<235, 215, 180>>, <<250, 240, 220>> >>] >>

(***************************************************************************)
(* utils/mosaic.ts: colour mapping                                         *)
(***************************************************************************)
Min(a, b) == IF a < b THEN a ELSE b

\* the values given to quantize are carried in units of 1 / Unit
Unit == 100000

\* the byte values colours are sampled from: the ends of the range and the
\* components of two colours of luminance exactly 127.5
ByteSamples == {0, 11, 34, 68, 204, 205, 255}

\* the triples, among those over ByteSamples and the pixels of SamplePixels,
\* for which the double sum 0.299 * r + 0.587 * g + 0.114 * b evaluated left to
\* right in IEEE-754 binary64 is below the exact sum
SumRoundsBelow ==
  {
    <<0, 11, 0>>, <<0, 11, 68>>, <<0, 34, 0>>, <<0, 34, 11>>, <<0, 34, 34>>,
    <<0, 34, 204>>, <<0, 34, 255>>, <<0, 68, 0>>, <<0, 68, 11>>, <<0, 68, 34>>,
    <<0, 68, 68>>, <<0, 68, 204>>, <<0, 68, 255>>, <<0, 204, 0>>, <<0, 204, 11>>,
    <<0, 204, 34>>, <<0, 204, 68>>, <<0, 204, 204>>, <<0, 204, 205>>, <<0, 204, 255>>,
    <<0, 205, 0>>, <<0, 205, 11>>, <<0, 205, 34>>, <<0, 205, 68>>, <<0, 205, 205>>,
    <<0, 255, 11>>, <<0, 255, 255>>, <<10, 200, 100>>, <<11, 0, 0>>, <<11, 0, 11>>,
    <<11, 0, 205>>, <<11, 11, 0>>, <<11, 11, 11>>, <<11, 11, 34>>, <<11, 11, 68>>,
    <<11, 11, 204>>, <<11, 11, 205>>, <<11, 34, 0>>, <<11, 68, 0>>, <<11, 68, 11>>,
    <<11, 68, 34>>, <<11, 68, 204>>, <<11, 204, 0>>, <<11, 204, 11>>, <<11, 204, 34>>,
    <<11, 204, 68>>, <<11, 204, 205>>, <<11, 204, 255>>, <<11, 205, 0>>, <<11, 205, 204>>,
    <<11, 205, 205>>, <<11, 205, 255>>, <<11, 255, 0>>, <<11, 255, 11>>, <<11, 255, 34>>,
    <<11, 255, 68>>, <<11, 255, 204>>, <<11, 255, 205>>, <<11, 255, 255>>, <<34, 0, 11>>,
    <<34, 0, 68>>, <<34, 0, 204>>, <<34, 11, 255>>, <<34, 34, 0>>, <<34, 34, 68>>,
    <<34, 34, 204>>, <<34, 34, 205>>, <<34, 68, 0>>, <<34, 68, 11>>, <<34, 68, 34>>,
    <<34, 68, 68>>, <<34, 68, 204>>, <<34, 68, 205>>, <<34, 68, 255>>, <<34, 204, 0>>,
    <<34, 204, 11>>, <<34, 204, 34>>, <<34, 204, 68>>, <<34, 204, 204>>, <<34, 204, 205>>,
    <<34, 204, 255>>, <<34, 205, 11>>, <<34, 205, 255>>, <<34, 255, 0>>, <<34, 255, 11>>,
    <<34, 255, 204>>, <<34, 255, 255>>, <<68, 0, 205>>, <<68, 34, 0>>, <<68, 34, 11>>,
    <<68, 34, 34>>, <<68, 34, 204>>, <<68, 34, 205>>, <<68, 34, 255>>, <<68, 68, 0>>,
    <<68, 68, 11>>, <<68, 68, 34>>, <<68, 68, 204>>, <<68, 68, 205>>, <<68, 68, 255>>,
    <<68, 204, 0>>, <<68, 204, 11>>, <<68, 204, 34>>, <<68, 204, 68>>, <<68, 204, 204>>,
    <<68, 204, 205>>, <<68, 204, 255>>, <<68, 205, 11>>, <<68, 205, 255>>, <<68, 255, 0>>,
    <<68, 255, 11>>, <<68, 255, 204>>, <<68, 255, 255>>, <<204, 0, 0>>, <<204, 0, 11>>,
    <<204, 0, 34>>, <<204, 0, 68>>, <<204, 0, 204>>, <<204, 0, 205>>, <<204, 11, 0>>,
    <<204, 11, 11>>, <<204, 11, 34>>, <<204, 11, 68>>, <<204, 11, 204>>, <<204, 11, 205>>,
    <<204, 11, 255>>, <<204, 34, 0>>, <<204, 34, 11>>, <<204, 34, 34>>, <<204, 34, 68>>,
    <<204, 34, 204>>, <<204, 34, 205>>, <<204, 68, 0>>, <<204, 68, 11>>, <<204, 68, 34>>,
    <<204, 68, 68>>, <<204, 68, 204>>, <<204, 68, 205>>, <<204, 68, 255>>, <<204, 204, 0>>,
    <<204, 204, 11>>, <<204, 204, 34>>, <<204, 204, 68>>, <<204, 204, 204>>, <<204, 204, 205>>,
    <<204, 204, 255>>, <<204, 205, 0>>, <<204, 205, 11>>, <<204, 205, 34>>, <<204, 205, 68>>,
    <<204, 205, 204>>, <<204, 205, 205>>, <<204, 205, 255>>, <<204, 255, 0>>, <<204, 255, 11>>,
    <<204, 255, 34>>, <<204, 255, 68>>, <<204, 255, 204>>, <<204, 255, 205>>, <<204, 255, 255>>,
    <<205, 0, 0>>, <<205, 0, 11>>, <<205, 0, 34>>, <<205, 0, 68>>, <<205, 0, 204>>,
    <<205, 0, 205>>, <<205, 0, 255>>, <<205, 11, 0>>, <<205, 11, 68>>, <<205, 11, 204>>,
    <<205, 11, 205>>, <<205, 34, 0>>, <<205, 34, 11>>, <<205, 34, 34>>, <<205, 34, 68>>,
    <<205, 34, 204>>, <<205, 34, 205>>, <<205, 34, 255>>, <<205, 68, 0>>, <<205, 68, 11>>,
    <<205, 68, 34>>, <<205, 68, 68>>, <<205, 68, 204>>, <<205, 68, 205>>, <<205, 68, 255>>,
    <<205, 204, 0>>, <<205, 204, 11>>, <<205, 204, 34>>, <<205, 204, 68>>, <<205, 204, 204>>,
    <<205, 204, 205>>, <<205, 204, 255>>, <<205, 205, 0>>, <<205, 205, 11>>, <<205, 205, 204>>,
    <<205, 205, 255>>, <<205, 255, 0>>, <<205, 255, 11>>, <<205, 255, 34>>, <<205, 255, 68>>,
    <<205, 255, 204>>, <<205, 255, 205>>, <<205, 255, 255>>, <<255, 0, 0>>, <<255, 0, 11>>,
    <<255, 0, 34>>, <<255, 0, 68>>, <<255, 0, 204>>, <<255, 0, 205>>, <<255, 0, 255>>,
    <<255, 11, 0>>, <<255, 11, 11>>, <<255, 11, 34>>, <<255, 11, 68>>, <<255, 11, 204>>,
    <<255, 11, 205>>, <<255, 11, 255>>, <<255, 34, 0>>, <<255, 34, 11>>, <<255, 34, 34>>,
    <<255, 34, 68>>, <<255, 34, 204>>, <<255, 34, 205>>, <<255, 34, 255>>, <<255, 68, 0>>,
    <<255, 68, 11>>, <<255, 68, 34>>, <<255, 68, 68>>, <<255, 68, 204>>, <<255, 68, 205>>,
    <<255, 68, 255>>, <<255, 204, 0>>, <<255, 204, 11>>, <<255, 204, 34>>, <<255, 204, 204>>,
    <<255, 204, 205>>, <<255, 204, 255>>, <<255, 205, 0>>, <<255, 205, 11>>, <<255, 205, 34>>,
    <<255, 205, 68>>, <<255, 205, 204>>, <<255, 205, 205>>, <<255, 205, 255>>, <<255, 255, 11>>
  }

\* the same, for which the double sum is above the exact sum
SumRoundsAbove ==
  {
    <<0, 0, 11>>, <<0, 0, 34>>, <<0, 0, 68>>, <<0, 0, 204>>, <<0, 0, 205>>,
    <<0, 0, 255>>, <<0, 11, 11>>, <<0, 11, 34>>, <<0, 11, 204>>, <<0, 11, 205>>,
    <<0, 11, 255>>, <<0, 34, 68>>, <<0, 34, 205>>, <<0, 68, 205>>, <<0, 205, 204>>,
    <<0, 205, 255>>, <<0, 255, 0>>, <<0, 255, 34>>, <<0, 255, 68>>, <<0, 255, 204>>,
    <<0, 255, 205>>, <<11, 0, 34>>, <<11, 0, 68>>, <<11, 0, 204>>, <<11, 0, 255>>,
    <<11, 11, 255>>, <<11, 34, 11>>, <<11, 34, 34>>, <<11, 34, 68>>, <<11, 34, 204>>,
    <<11, 34, 205>>, <<11, 34, 255>>, <<11, 68, 68>>, <<11, 68, 205>>, <<11, 68, 255>>,
    <<11, 204, 204>>, <<11, 205, 11>>, <<11, 205, 68>>, <<34, 0, 0>>, <<34, 0, 34>>,
    <<34, 0, 205>>, <<34, 0, 255>>, <<34, 11, 0>>, <<34, 11, 11>>, <<34, 11, 34>>,
    <<34, 11, 204>>, <<34, 11, 205>>, <<34, 34, 11>>, <<34, 34, 255>>, <<34, 205, 0>>,
    <<34, 205, 34>>, <<34, 205, 68>>, <<34, 205, 204>>, <<34, 205, 205>>, <<34, 255, 34>>,
    <<34, 255, 68>>, <<34, 255, 205>>, <<68, 0, 0>>, <<68, 0, 11>>, <<68, 0, 34>>,
    <<68, 0, 68>>, <<68, 0, 204>>, <<68, 0, 255>>, <<68, 11, 0>>, <<68, 11, 11>>,
    <<68, 11, 34>>, <<68, 11, 68>>, <<68, 11, 204>>, <<68, 11, 205>>, <<68, 11, 255>>,
    <<68, 34, 68>>, <<68, 205, 0>>, <<68, 205, 34>>, <<68, 205, 68>>, <<68, 205, 204>>,
    <<68, 205, 205>>, <<68, 255, 34>>, <<68, 255, 68>>, <<68, 255, 205>>, <<155, 188, 15>>,
    <<204, 0, 255>>, <<204, 34, 255>>, <<205, 11, 11>>, <<205, 11, 34>>, <<205, 11, 255>>,
    <<205, 205, 34>>, <<205, 205, 68>>, <<255, 204, 68>>, <<255, 255, 0>>, <<255, 255, 34>>,
    <<255, 255, 68>>, <<255, 255, 204>>, <<255, 255, 205>>
  }

\* the direction in which the double sum misses the exact one
sumRounding(r, g, b) ==
  IF <<r, g, b>> \in SumRoundsBelow THEN -1
  ELSE IF <<r, g, b>> \in SumRoundsAbove THEN 1
  ELSE 0

\* the exact luminance 0.299 r + 0.587 g + 0.114 b, in units of 1 / Unit
exactGray(r, g, b) == (Unit \div 1000) * (299 * r + 587 * g + 114 * b)

\* toGray(r, g, b) as the doubles compute it, in units of 1 / Unit
toGray(r, g, b) == exactGray(r, g, b) + sumRounding(r, g, b)

\* the one value of the model that stands for JavaScript's NaN; every number
\* quantize computes from a byte with levels >= 2 is >= 0
NaN == -1

\* quantize with Math.floor in place of both Math.round
quantizeTruncating(value, levels) ==
  IF levels = 1 THEN NaN
  ELSE LET k == (value * (levels - 1)) \div (255 * Unit)
       IN  (k * 255) \div (levels - 1)

\* quantize(value, levels), value in units of 1 / Unit, levels >= 1.
\* levels = 1 makes step = 255 / 0 = Infinity and the result 0 * Infinity = NaN.
quantize(value, levels) ==
  IF levels = 1 THEN NaN
  ELSE LET k == (2 * value * (levels - 1) + 255 * Unit) \div (2 * 255 * Unit)
       IN  (2 * k * 255 + (levels - 1)) \div (2 * (levels - 1))

RECURSIVE closestFrom(_, _, _, _, _, _, _)
\* the loop of closestPaletteColor from entry i on; minDist = -1 is Infinity
closestFrom(r, g, b, palette, i, minDist, best) ==
  IF i > Len(palette) THEN best
  ELSE LET c    == palette[i]
           dr   == r - c[1]
           dg   == g - c[2]
           db   == b - c[3]
           dist == dr * dr + dg * dg + db * db
       IN  IF minDist = -1 \/ dist < minDist
           THEN closestFrom(r, g, b, palette, i + 1, dist, c)
           ELSE closestFrom(r, g, b, palette, i + 1, minDist, best)

RECURSIVE closestFromLast(_, _, _, _, _, _, _)
\* the same loop with  dist <= minDist : the last of the closest entries wins
closestFromLast(r, g, b, palette, i, minDist, best) ==
  IF i > Len(palette) THEN best
  ELSE LET c    == palette[i]
           dr   == r - c[1]
           dg   == g - c[2]
           db   == b - c[3]
           dist == dr * dr + dg * dg + db * db
       IN  IF minDist = -1 \/ dist <= minDist
           THEN closestFromLast(r, g, b, palette, i + 1, dist, c)
           ELSE closestFromLast(r, g, b, palette, i + 1, minDist, best)

closestPaletteColorLast(r, g, b, palette) ==
  closestFromLast(r, g, b, palette, 1, -1, palette[1])

closestPaletteColor(r, g, b, palette) ==
  closestFrom(r, g, b, palette, 1, -1, palette[1])

\* a mapColor without the palette branch
mapBranchNoPalette(opts) == IF opts.colorMode = "grayscale" THEN "gray" ELSE "channels"

\* which branch of mapColor handles the options
mapBranch(opts) ==
  IF opts.colorMode = "grayscale" THEN "gray"
  ELSE IF opts.colorMode = "palette" /\ opts.palette # NoPalette THEN "palette"
  ELSE "channels"

mapColor(r, g, b, opts) ==
  IF mapBranch(opts) = "gray"
  THEN LET gray == quantize(toGray(r, g, b), opts.levels) IN <<gray, gray, gray>>
  ELSE IF mapBranch(opts) = "palette"
  THEN closestPaletteColor(r, g, b, opts.palette.colors)
  ELSE <<quantize(Unit * r, opts.levels), quantize(Unit * g, opts.levels),
         quantize(Unit * b, opts.levels)>>

\* a store into a Uint8ClampedArray: NaN becomes 0, the rest is clamped
ToUint8Clamped(v) ==
  IF v = NaN THEN 0 ELSE IF v < 0 THEN 0 ELSE IF v > 255 THEN 255 ELSE v

(***************************************************************************)
(* utils/mosaic.ts: processFrame                                           *)
(*                                                                         *)
(* An ImageData is [width, height, data]; data is the flat RGBA byte       *)
(* sequence, data[i + 1] being the byte at JavaScript index i.             *)
(***************************************************************************)
OptionFields == {"pixelSize", "colorMode", "levels", "palette"}

\* { ...DEFAULT_OPTIONS, ...options }
withDefaults(options) ==
  [f \in OptionFields |-> IF f \in DOMAIN options THEN options[f] ELSE DEFAULT_OPTIONS[f]]

RECURSIVE origins(_, _, _)
\* the values of  for (v = start; v < limit; v += step)  , step > 0
origins(start, limit, step) ==
  IF start >= limit THEN <<>> ELSE <<start>> \o origins(start + step, limit, step)

\* the block origins <<bx, by>> in the order the nested loops visit them
blockOrigins(width, height, pixelSize) ==
  LET xs == origins(0, width, pixelSize)
      ys == origins(0, height, pixelSize)
  IN  [k \in 1..(Len(xs) * Len(ys)) |->
         <<xs[((k - 1) \div Len(ys)) + 1], ys[((k - 1) % Len(ys)) + 1]>>]

\* the centre of a block without the clamp to the last pixel
sampleCoordUnclamped(origin, pixelSize, size) == origin + (pixelSize \div 2)

\* cx / cy: the clamped centre of a block along one axis
sampleCoord(origin, pixelSize, size) == Min(origin + (pixelSize \div 2), size - 1)

\* pos = (cy * width + cx) * 4
samplePos(bx, by, pixelSize, width, height) ==
  (sampleCoord(by, pixelSize, height) * width + sampleCoord(bx, pixelSize, width)) * 4

\* an end one pixel short of the block
blockEndShort(origin, pixelSize, size) == Min(origin + pixelSize - 1, size)

\* maxX / maxY: the clipped end of a block along one axis
blockEnd(origin, pixelSize, size) == Min(origin + pixelSize, size)

\* idx = (py * width + px) * 4 for every pixel the two inner loops visit
blockPixels(bx, by, pixelSize, width, height) ==
  {(py * width + px) * 4 : px \in bx..(blockEnd(bx, pixelSize, width) - 1),
                           py \in by..(blockEnd(by, pixelSize, height) - 1)}

\* a typed-array read; outside the array JavaScript yields undefined, which
\* the arithmetic of mapColor turns into NaN and the store into 0
srcAt(data, i) == IF i + 1 \in DOMAIN data THEN data[i + 1] ELSE 0

\* the background fill: rgb 0, alpha 255 at every pixel
fillBackground(width, height) ==
  [i \in 1..(width * height * 4) |-> IF (i - 1) % 4 = 3 THEN 255 ELSE 0]

\* a block painted with the alpha of the sampled source pixel
paintBlockSourceAlpha(dst, src, bx, by, opts, width, height) ==
  LET pos == samplePos(bx, by, opts.pixelSize, width, height)
      rgb == mapColor(srcAt(src, pos), srcAt(src, pos + 1), srcAt(src, pos + 2), opts)
      px  == blockPixels(bx, by, opts.pixelSize, width, height)
  IN  [i \in DOMAIN dst |->
         IF ((i - 1) - ((i - 1) % 4)) \in px
         THEN (IF (i - 1) % 4 = 3 THEN srcAt(src, pos + 3)
               ELSE ToUint8Clamped(rgb[((i - 1) % 4) + 1]))
         ELSE dst[i]]

\* one pass of the outer loops' body: sample, map, paint the block
paintBlock(dst, src, bx, by, opts, width, height) ==
  LET pos == samplePos(bx, by, opts.pixelSize, width, height)
      rgb == mapColor(srcAt(src, pos), srcAt(src, pos + 1), srcAt(src, pos + 2), opts)
      px  == blockPixels(bx, by, opts.pixelSize, width, height)
  IN  [i \in DOMAIN dst |->
         IF ((i - 1) - ((i - 1) % 4)) \in px
         THEN (IF (i - 1) % 4 = 3 THEN 255 ELSE ToUint8Clamped(rgb[((i - 1) % 4) + 1]))
         ELSE dst[i]]

RECURSIVE paintFrom(_, _, _, _, _, _, _)
paintFrom(dst, src, blocks, k, opts, width, height) ==
  IF k > Len(blocks) THEN dst
  ELSE paintFrom(paintBlock(dst, src, blocks[k][1], blocks[k][2], opts, width, height),
                 src, blocks, k + 1, opts, width, height)

\* a processFrame that paints into the buffer it was given
dstIsSrcAliased == TRUE

\* whether dst is the array src:  output = new ImageData(width, height)  is an
\* object of its own
dstIsSrc == FALSE

\* the ImageData passed to processFrame as the call leaves it: every store of
\* the function goes to dst
inputAfter(imageData, output) ==
  IF dstIsSrc THEN [imageData EXCEPT !.data = output.data] ELSE imageData

\* What a call of processFrame does: how it ends, the buffer it returns, the
\* arguments as it leaves them, and the indices of src it reads and of dst it
\* writes.  With pixelSize = 0 the
\* inner loop never advances (by += 0): the call reads its first sample and
\* never returns.  No path of the function throws.
processFrameRun(imageData, options) ==
  LET opts   == withDefaults(options)
      width  == imageData.width
      height == imageData.height
      fill   == {i \in 0..(width * height * 4 - 1) : TRUE}
  IN  IF opts.pixelSize <= 0
      THEN [status |-> "hang", output |-> [width |-> width, height |-> height, data |-> <<>>],
            input |-> inputAfter(imageData, [data |-> fillBackground(width, height)]),
            optionsAfter |-> options,
            reads  |-> {samplePos(0, 0, opts.pixelSize, width, height) + c : c \in 0..2},
            writes |-> fill]
      ELSE LET blocks == blockOrigins(width, height, opts.pixelSize)
               out    == [width |-> width, height |-> height,
                          data |-> paintFrom(fillBackground(width, height), imageData.data,
                                             blocks, 1, opts, width, height)]
           IN  [status |-> "returned",
                output |-> out,
                input |-> inputAfter(imageData, out),
                optionsAfter |-> options,
                reads  |-> UNION {{samplePos(blocks[k][1], blocks[k][2], opts.pixelSize,
                                             width, height) + c : c \in 0..2}
                                  : k \in DOMAIN blocks},
                writes |-> fill \cup
                           UNION {{p + c : p \in blockPixels(blocks[k][1], blocks[k][2],
                                                             opts.pixelSize, width, height),
                                           c \in 0..3}
                                  : k \in DOMAIN blocks}]

processFrame(imageData, options) == processFrameRun(imageData, options).output


(***************************************************************************)
(* Pixel buffers used as inputs                                            *)
(***************************************************************************)
SamplePixels ==
  << <<255, 0, 0, 255>>, <<155, 188, 15, 0>>, <<0, 0, 0, 255>>,
     <<10, 200, 100, 128>>, <<255, 255, 255, 64>> >>

\* a width x height ImageData whose pixel k is SamplePixels[(k + seed) mod 5]
sampleImage(width, height, seed) ==
  [width |-> width, height |-> height,
   data |-> [i \in 1..(width * height * 4) |->
               SamplePixels[((((i - 1) \div 4) + seed) % Len(SamplePixels)) + 1][((i - 1) % 4) + 1]]]

(***************************************************************************)
(* utils/gif.ts: parseGif                                                  *)
(*                                                                         *)
(* A GIF file, as omggif's GifReader sees it: whether the bytes start with *)
(* a GIF signature, the logical screen size, the declared delay of every   *)
(* frame in centiseconds, and the first frame (0 = none) whose blocks are  *)
(* invalid, where the reader throws.                                       *)
(***************************************************************************)
\* the same without the default for a declared delay of 0
frameDelayNoDefault(delayCs) == delayCs * 10

\* the same left in the file's unit, centiseconds
frameDelayInCs(delayCs) == IF delayCs = 0 THEN 10 ELSE delayCs

\* (info.delay || 10) * 10
frameDelay(delayCs) == (IF delayCs = 0 THEN 10 ELSE delayCs) * 10

\* the RGBA buffer decodeAndBlitFrameRGBA fills for frame i
decodedImage(file, i) == sampleImage(file.width, file.height, file.seed + i)

\* a decoder that stops at the bad frame and returns what it has
parseReturnsPrefix(frames) == [status |-> "returned", frames |-> frames, decoded |-> Len(frames)]

\* the outcome of parseGif when the reader throws with `frames` decoded so far:
\* the exception leaves the function and the local array is lost
parseThrows(frames) == [status |-> "threw", frames |-> <<>>, decoded |-> Len(frames)]

RECURSIVE parseFrom(_, _, _)
\* the loop of parseGif from frame i on
parseFrom(file, i, frames) ==
  IF i > Len(file.delays) THEN [status |-> "returned", frames |-> frames, decoded |-> Len(frames)]
  ELSE IF file.badFrame = i THEN parseThrows(frames)
  ELSE parseFrom(file, i + 1,
                 Append(frames, [imageData |-> decodedImage(file, i),
                                 delay |-> frameDelay(file.delays[i])]))

parseGif(file) ==
  IF ~file.signatureOk THEN parseThrows(<<>>) ELSE parseFrom(file, 1, <<>>)

(***************************************************************************)
(* utils/gif.ts: encodeGif                                                 *)
(***************************************************************************)
\* frames.map(f => ({ data: f.imageData.data, delay: f.delay }))
encoderFrames(frames) ==
  [i \in 1..Len(frames) |-> [data |-> frames[i].imageData.data, delay |-> frames[i].delay]]

\* the argument encodeGif hands to modern-gif's encode
encodeCall(frames, width, height) ==
  [width |-> width, height |-> height, frames |-> encoderFrames(frames)]

\* modern-gif writes each delay in centiseconds: delay_cs = round(delay_ms / 10)
writtenDelayCs(delayMs) == (delayMs + 5) \div 10

\* the animation modern-gif's encode writes for a call
gifBytes(call) ==
  [width |-> call.width, height |-> call.height,
   frames |-> [i \in 1..Len(call.frames) |->
                 [data |-> call.frames[i].data, delayCs |-> writtenDelayCs(call.frames[i].delay)]]]

NoBytes == [width |-> 0, height |-> 0, frames |-> <<>>]

\* encodeGif(frames, width, height) when the import and encode settle as
\* `settles` ("resolved" or "rejected"): the call it made and the Blob content
encodeGif(frames, width, height, settles) ==
  [status |-> settles,
   call   |-> encodeCall(frames, width, height),
   blob   |-> IF settles = "resolved" THEN gifBytes(encodeCall(frames, width, height))
              ELSE NoBytes]

(***************************************************************************)
(* utils/mosaic.ts: applyMosaic                                            *)
(*                                                                         *)
(* A canvas is [kind |-> "null"] (no element: the ref is null),            *)
(* [kind |-> "blank"] (a new element, transparent black) or                *)
(* [kind |-> "drawn", img, opts]: the pixels drawn last and, for the       *)
(* result canvas, the options they were computed under.                    *)
(***************************************************************************)
\* imageRef.current before an image has loaded: null
NoImage == <<>>

NullCanvas == [kind |-> "null"]
BlankCanvas == [kind |-> "blank"]

\* A new canvas element is 300 x 150 and transparent black.  The model keeps
\* the content (every byte 0) and shrinks the size.
blankImage == [width |-> 2, height |-> 1, data |-> [i \in 1..8 |-> 0]]

canvasImage(canvas) == IF canvas.kind = "drawn" THEN canvas.img ELSE blankImage

\* getImageData(0, 0, width, height): a canvas keeps its pixels premultiplied,
\* so a pixel of alpha 0 reads back as 0, 0, 0, 0 and an opaque pixel as drawn
\* (the buffers put on a canvas here have alpha 0 or 255 only)
getImageData(canvas) ==
  LET img == canvasImage(canvas)
  IN  [width |-> img.width, height |-> img.height,
       data |-> [i \in DOMAIN img.data |->
                   IF img.data[(i - 1) - ((i - 1) % 4) + 4] = 0 THEN 0 ELSE img.data[i]]]

\* fillStyle = `rgb(r,g,b)`: a string with NaN in it does not parse and the
\* assignment is ignored
setFillStyle(fillStyle, rgb) ==
  IF \E c \in 1..3 : rgb[c] = NaN THEN fillStyle
  ELSE [c \in 1..3 |-> ToUint8Clamped(rgb[c])]

\* a fillRect that is not clipped: in the flat buffer the part of the
\* rectangle beyond the right edge lands on the next row
fillRectWrapping(data, x, y, w, h, fillStyle, width, height) ==
  LET px == {(yy * width + xx) * 4 : xx \in x..(x + w - 1),
                                     yy \in y..(Min(y + h, height) - 1)}
  IN  [i \in DOMAIN data |->
         IF ((i - 1) - ((i - 1) % 4)) \in px
         THEN (IF (i - 1) % 4 = 3 THEN 255 ELSE fillStyle[((i - 1) % 4) + 1])
         ELSE data[i]]

\* fillRect(x, y, w, h) on a width x height canvas: the canvas clips it
fillRect(data, x, y, w, h, fillStyle, width, height) ==
  LET px == {(yy * width + xx) * 4 : xx \in x..(Min(x + w, width) - 1),
                                     yy \in y..(Min(y + h, height) - 1)}
  IN  [i \in DOMAIN data |->
         IF ((i - 1) - ((i - 1) % 4)) \in px
         THEN (IF (i - 1) % 4 = 3 THEN 255 ELSE fillStyle[((i - 1) % 4) + 1])
         ELSE data[i]]

RECURSIVE mosaicFrom(_, _, _, _, _, _, _, _)
\* the nested loops of applyMosaic from block k on
mosaicFrom(data, fillStyle, pixels, blocks, k, opts, width, height) ==
  IF k > Len(blocks) THEN data
  ELSE LET x     == blocks[k][1]
           y     == blocks[k][2]
           pos   == samplePos(x, y, opts.pixelSize, width, height)
           rgb   == mapColor(srcAt(pixels, pos), srcAt(pixels, pos + 1),
                             srcAt(pixels, pos + 2), opts)
           style == setFillStyle(fillStyle, rgb)
       IN  mosaicFrom(fillRect(data, x, y, opts.pixelSize, opts.pixelSize, style, width, height),
                      style, pixels, blocks, k + 1, opts, width, height)

\* the pixels applyMosaic leaves on the target canvas (pixelSize >= 1)
applyMosaic(sourceCanvas, options) ==
  LET opts   == withDefaults(options)
      src    == getImageData(sourceCanvas)
      width  == src.width
      height == src.height
      black  == <<0, 0, 0>>
      cleared == [i \in 1..(width * height * 4) |-> 0]
  IN  [width |-> width, height |-> height,
       data |-> mosaicFrom(fillRect(cleared, 0, 0, width, height, black, width, height),
                           black, src.data, blockOrigins(width, height, opts.pixelSize),
                           1, opts, width, height)]

(***************************************************************************)
(* App.tsx: helpers of the component                                       *)
(***************************************************************************)
\* getMosaicOpts() for the component's settings
getMosaicOpts(s) ==
  [pixelSize |-> s.pixelSize, colorMode |-> s.colorMode, levels |-> s.levels,
   palette |-> IF s.colorMode = "palette" THEN PALETTES[s.paletteIndex + 1] ELSE NoPalette]

\* A file name is the sequence of its dot-separated parts.
\* fileName.replace(/\.[^.]+$/, ''): drops the last part when there is one
\* after a dot and it is not empty
baseName(name) ==
  IF Len(name) >= 2 /\ name[Len(name)] # "" THEN SubSeq(name, 1, Len(name) - 1) ELSE name

\* the canvases the render (un)mounts: they exist exactly while fileType is set
mounted(canvas, oldType, newType) ==
  IF newType = "null" THEN NullCanvas
  ELSE IF oldType = "null" THEN BlankCanvas
  ELSE canvas

\* the effect "Re-apply mosaic": gifFrames as its call of processFrame on
\* gifFrames[0] leaves them
framesAfterEffect(type, frames, image, opts) ==
  IF type = "image" /\ image # NoImage THEN frames
  ELSE IF type = "gif" /\ Len(frames) > 0
  THEN [frames EXCEPT ![1].imageData = processFrameRun(@, opts).input]
  ELSE frames

\* the effect "Re-apply mosaic": what the result canvas holds after it ran
reapplyMosaic(result, source, type, frames, image, opts) ==
  IF type = "image" /\ image # NoImage
  THEN [kind |-> "drawn", img |-> applyMosaic(source, opts), opts |-> opts]
  ELSE IF type = "gif" /\ Len(frames) > 0
  THEN [kind |-> "drawn", img |-> processFrame(frames[1].imageData, opts), opts |-> opts]
  ELSE result

(***************************************************************************)
(* State                                                                   *)
(***************************************************************************)
VARIABLES
  settings,     \* pixelSize, levels, colorMode, paletteIndex (useState)
  fileType,     \* "null", "image" or "gif"
  fileName,     \* the dot-separated parts of the name shown
  gifFrames,    \* the frames of the loaded GIF
  dimensions,   \* the width and height shown
  imageRef,     \* imageRef.current: NoImage or the name of the loaded image
  sourceCanvas, \* sourceCanvasRef.current
  resultCanvas, \* resultCanvasRef.current
  processing,   \* a GIF export is under way
  loads,        \* the calls of handleFile, by number: where each stands
  exports,      \* the calls of handleExport, by number: where each stands
  downloads,    \* the calls of downloadBlob so far
  pf,           \* a call of processFrame, or a map of it over frames: arguments and outcome
  gd,           \* a call of parseGif on a file, and the re-encoding of what it returns
  ge,           \* a call of encodeGif: its arguments and, once settled, its outcome
  mc,           \* a call of a colour function: its arguments and, once run, its result
  pb            \* the component with GIF playback: its state, refs and pending timeouts

appVars == <<settings, fileType, fileName, gifFrames, dimensions, imageRef,
             sourceCanvas, resultCanvas, processing, loads, exports, downloads>>

vars == <<settings, fileType, fileName, gifFrames, dimensions, imageRef,
          sourceCanvas, resultCanvas, processing, loads, exports, downloads, pf, gd, ge, mc, pb>>

\* the component as first rendered
InitialSettings == [pixelSize |-> 8, levels |-> 4, colorMode |-> "grayscale", paletteIndex |-> 0]

AppInit ==
  /\ settings = InitialSettings
  /\ fileType = "null"
  /\ fileName = <<"">>
  /\ gifFrames = <<>>
  /\ dimensions = [w |-> 0, h |-> 0]
  /\ imageRef = NoImage
  /\ sourceCanvas = NullCanvas
  /\ resultCanvas = NullCanvas
  /\ processing = FALSE
  /\ loads = [n \in 1..MaxLoads |-> [pc |-> "idle"]]
  /\ exports = [e \in 1..MaxExports |-> [pc |-> "idle"]]
  /\ downloads = <<>>

(***************************************************************************)
(* Inputs of the calls                                                     *)
(***************************************************************************)
Seeds == 0..1

\* pixelSize values: in range up to MaxBlock and the top of the range,
\* and out of range on both sides
PixelSizeInputs == {0, MinPixelSize - 1} \cup (MinPixelSize..MaxBlock)
                   \cup {MaxPixelSize, MaxPixelSize + 1}

LevelsInputs == {MinLevels - 1, MinLevels, 3, MaxLevels, MaxLevels + 1}

ColorModes == {"grayscale", "color", "palette"}

PaletteInputs == {NoPalette, PALETTES[1], PALETTES[2]}

OptionsInputs ==
  [pixelSize : PixelSizeInputs, colorMode : ColorModes, levels : LevelsInputs,
   palette : PaletteInputs]

validPixelSize(b) == b \in MinPixelSize..MaxPixelSize
validLevels(l) == l \in MinLevels..MaxLevels

(***************************************************************************)
(* Specification of one processFrame call on arbitrary arguments           *)
(***************************************************************************)
FrameOff == pf = [pc |-> "off"]
DecodeOff == gd = [pc |-> "off"]
EncodeOff == ge = [pc |-> "off"]
ColorOff == mc = [pc |-> "off"]
PlayOff == pb = [pc |-> "off"]

InitFrame ==
  /\ AppInit /\ DecodeOff /\ EncodeOff /\ ColorOff /\ PlayOff
  /\ \E w \in 1..MaxDim, h \in 1..MaxDim, seed \in Seeds, o \in OptionsInputs :
       pf = [pc |-> "called", imageData |-> sampleImage(w, h, seed), options |-> o]

\* the call runs to its end (or to the loop it never leaves)
RunProcessFrame ==
  /\ pf.pc = "called"
  /\ pf' = [pc |-> "ran", imageData |-> pf.imageData, options |-> pf.options,
            run |-> processFrameRun(pf.imageData, pf.options)]
  /\ UNCHANGED <<gd, ge, mc, pb>>
  /\ UNCHANGED appVars

\* the static-image transform and the per-frame transform on one pixel buffer:
\* applyMosaic on a source canvas, processFrame on the pixels that canvas holds
RunBothTransforms ==
  /\ pf.pc = "called"
  /\ pf.options.pixelSize >= 1
  /\ LET source == [kind |-> "drawn", img |-> pf.imageData]
     IN  pf' = [pc |-> "applied", options |-> pf.options,
                pixels |-> getImageData(source),
                target |-> applyMosaic(source, pf.options),
                run |-> processFrameRun(getImageData(source), pf.options)]
  /\ UNCHANGED <<gd, ge, mc, pb>>
  /\ UNCHANGED appVars

NextFrame == RunProcessFrame \/ RunBothTransforms

SpecFrame == InitFrame /\ [][NextFrame]_vars

(***************************************************************************)
(* Claims on processFrame                                                  *)
(***************************************************************************)
bufferIndices(imageData) == 0..(imageData.width * imageData.height * 4 - 1)

\* C4: palette mode without a palette ends in a ConfigurationError before any
\* source pixel is read, never in a fallback to another colour mapping.
C4_PaletteRequired ==
  (/\ pf.pc = "ran" /\ pf.options.colorMode = "palette" /\ pf.options.palette = NoPalette
   /\ validPixelSize(pf.options.pixelSize) /\ validLevels(pf.options.levels))
    => /\ pf.run.status = "ConfigurationError"
       /\ pf.run.reads = {}
       /\ pf.run.output.data # processFrame(pf.imageData, [pf.options EXCEPT !.colorMode = "color"]).data

\* C5: a pixelSize outside 2..50 or a levels outside 2..8 is rejected with a
\* configuration error before any pixel work: nothing is written.
C5_RangeRejected ==
  (pf.pc = "ran" /\ (~validPixelSize(pf.options.pixelSize) \/ ~validLevels(pf.options.levels)))
    => (pf.run.status = "ConfigurationError" /\ pf.run.writes = {})

\* C10: for pixelSize in 2..50 and any W, H >= 1 the call returns a W x H
\* buffer, every index read or written lies in 0..W*H*4-1, and every block's
\* painted region lies within [0,W) x [0,H).
C10_InBounds ==
  (pf.pc = "ran" /\ validPixelSize(pf.options.pixelSize)) =>
    LET W == pf.imageData.width
        H == pf.imageData.height
        b == pf.options.pixelSize
        blocks == blockOrigins(W, H, b)
    IN  /\ pf.run.status = "returned"
        /\ pf.run.output.width = W
        /\ pf.run.output.height = H
        /\ Len(pf.run.output.data) = W * H * 4
        /\ pf.run.reads \subseteq bufferIndices(pf.imageData)
        /\ pf.run.writes \subseteq bufferIndices(pf.imageData)
        /\ \A k \in DOMAIN blocks :
             /\ 0 <= blocks[k][1] /\ blocks[k][1] < blockEnd(blocks[k][1], b, W)
             /\ blockEnd(blocks[k][1], b, W) <= W
             /\ 0 <= blocks[k][2] /\ blocks[k][2] < blockEnd(blocks[k][2], b, H)
             /\ blockEnd(blocks[k][2], b, H) <= H

\* a clipped last column and row: W and H are not multiples of pixelSize, and
\* the sample of the last block was clamped to the last pixel
C10_Witness ==
  /\ pf.pc = "ran"
  /\ pf.options.pixelSize = 2 /\ pf.imageData.width = 3 /\ pf.imageData.height = 3
  /\ pf.run.status = "returned"
  /\ (3 * 3 * 4 - 2) \in pf.run.reads

(***************************************************************************)
(* Specification of parseGif on arbitrary files, followed by encodeGif on  *)
(* the frames it returned, unmodified                                      *)
(***************************************************************************)
\* declared delays, in centiseconds
DelayInputs == (0..MaxDelayCs) \cup {50, 200}

RECURSIVE SeqsUpTo(_, _)
\* the sequences over S of length at most n
SeqsUpTo(S, n) ==
  IF n = 0 THEN {<<>>}
  ELSE LET shorter == SeqsUpTo(S, n - 1)
       IN  shorter \cup {Append(q, x) : q \in {r \in shorter : Len(r) = n - 1}, x \in S}

GifFileInputs ==
  {[signatureOk |-> sig, width |-> 1, height |-> 1, seed |-> 0, delays |-> d, badFrame |-> bad] :
     sig \in BOOLEAN, d \in SeqsUpTo(DelayInputs, MaxFrames), bad \in 0..MaxFrames}

InitDecode ==
  /\ AppInit /\ FrameOff /\ EncodeOff /\ ColorOff /\ PlayOff
  /\ \E file \in GifFileInputs :
       /\ file.badFrame <= Len(file.delays)
       /\ gd = [pc |-> "called", file |-> file]

RunParseGif ==
  /\ gd.pc = "called"
  /\ gd' = [pc |-> "parsed", file |-> gd.file, parse |-> parseGif(gd.file)]
  /\ UNCHANGED <<pf, ge, mc, pb>>
  /\ UNCHANGED appVars

\* the frames parseGif returned go to encodeGif as they are
ReEncode ==
  /\ gd.pc = "parsed"
  /\ gd.parse.status = "returned"
  /\ \E settles \in {"resolved", "rejected"} :
       gd' = [pc |-> "encoded", file |-> gd.file, parse |-> gd.parse,
              encode |-> encodeGif(gd.parse.frames, gd.file.width, gd.file.height, settles)]
  /\ UNCHANGED <<pf, ge, mc, pb>>
  /\ UNCHANGED appVars

NextDecode == RunParseGif \/ ReEncode

SpecDecode == InitDecode /\ [][NextDecode]_vars

Abs(x) == IF x < 0 THEN -x ELSE x

\* C8: a decoded delay is 10 x the declared centiseconds, a declared 0 gives
\* 100 ms; declared [0, 50, 200] decode to [100, 500, 2000]; no decoded delay
\* is 0.
C8_DecodedDelay ==
  (gd.pc = "parsed" /\ gd.parse.status = "returned") =>
    /\ Len(gd.parse.frames) = Len(gd.file.delays)
    /\ \A i \in DOMAIN gd.parse.frames :
         /\ gd.parse.frames[i].delay =
              (IF gd.file.delays[i] = 0 THEN 100 ELSE 10 * gd.file.delays[i])
         /\ gd.parse.frames[i].delay # 0
    /\ (gd.file.delays = <<0, 50, 200>> =>
          [i \in 1..3 |-> gd.parse.frames[i].delay] = <<100, 500, 2000>>)

C8_Witness ==
  /\ gd.pc = "parsed" /\ gd.parse.status = "returned"
  /\ gd.file.delays = <<0, 50, 200>>

\* C9 (as claimed): after decoding and re-encoding unmodified, the animation
\* has N frames and every frame's delay is within 10 ms of the declared one,
\* for every declared delay including 0.
C9_RoundTripAnyDelay ==
  (gd.pc = "encoded" /\ gd.encode.status = "resolved") =>
    /\ Len(gd.encode.blob.frames) = Len(gd.file.delays)
    /\ \A i \in DOMAIN gd.file.delays :
         Abs(10 * gd.encode.blob.frames[i].delayCs - 10 * gd.file.delays[i]) <= 10

\* C9 (amended): N is preserved; a declared delay of at least 1 cs comes back
\* within 10 ms (in fact unchanged), and a declared delay of 0 comes back as
\* 100 ms.
C9_RoundTrip ==
  (gd.pc = "encoded" /\ gd.encode.status = "resolved") =>
    /\ Len(gd.encode.blob.frames) = Len(gd.file.delays)
    /\ \A i \in DOMAIN gd.file.delays :
         IF gd.file.delays[i] >= 1
         THEN Abs(10 * gd.encode.blob.frames[i].delayCs - 10 * gd.file.delays[i]) <= 10
         ELSE 10 * gd.encode.blob.frames[i].delayCs = 100

C9_Witness ==
  /\ gd.pc = "encoded" /\ gd.encode.status = "resolved"
  /\ Len(gd.file.delays) >= 2
  /\ gd.file.delays[1] = 0
  /\ gd.file.delays[2] = 200

(***************************************************************************)
(* Specification of one encodeGif call on arbitrary arguments              *)
(***************************************************************************)
EncodeFrameInputs ==
  {[imageData |-> sampleImage(w, h, 0), delay |-> d] :
     w \in 1..2, h \in 1..2, d \in {100, 500}}

InitEncode ==
  /\ AppInit /\ FrameOff /\ DecodeOff /\ ColorOff /\ PlayOff
  /\ \E frames \in SeqsUpTo(EncodeFrameInputs, MaxFrames - 1), w \in 1..2, h \in 1..2 :
       ge = [pc |-> "called", frames |-> frames, width |-> w, height |-> h]

RunEncodeGif ==
  /\ ge.pc = "called"
  /\ \E settles \in {"resolved", "rejected"} :
       ge' = [pc |-> "settled", frames |-> ge.frames, width |-> ge.width, height |-> ge.height,
              result |-> encodeGif(ge.frames, ge.width, ge.height, settles)]
  /\ UNCHANGED <<pf, gd, mc, pb>>
  /\ UNCHANGED appVars

NextEncode == RunEncodeGif

SpecEncode == InitEncode /\ [][NextEncode]_vars

dimensionsMismatch(frames, width, height) ==
  \E i \in DOMAIN frames :
    frames[i].imageData.width # width \/ frames[i].imageData.height # height

\* C6: encodeGif fails with an EncodeError, before any output bytes, whenever
\* frames is empty or a frame's width / height differs from the given ones.
\* Any rejection counts here as the failure; a resolved promise does not.
C6_EncodeRejects ==
  (ge.pc = "settled" /\ (ge.frames = <<>> \/ dimensionsMismatch(ge.frames, ge.width, ge.height)))
    => (ge.result.status = "rejected" /\ ge.result.blob = NoBytes)

(***************************************************************************)
(* App.tsx: the component.  Every action is one task of the event loop: a  *)
(* handler (or the continuation of one after an await) together with the   *)
(* render and the effects that follow it.  The synchronous frame loop of   *)
(* handleExport is split into one step per frame; nothing else runs until  *)
(* it reaches its await.                                                   *)
(***************************************************************************)
\* the files the user can pick
gifFile(name, seed, n, bad, sig) ==
  [name |-> name, type |-> "image/gif",
   gif |-> [signatureOk |-> sig, width |-> 1, height |-> 1, seed |-> seed,
            delays |-> [i \in 1..n |-> IF i = 1 THEN 0 ELSE 20 * i], badFrame |-> bad],
   image |-> blankImage]

otherFile(name, type, seed) ==
  [name |-> name, type |-> type,
   gif |-> [signatureOk |-> FALSE, width |-> 1, height |-> 1, seed |-> 0,
            delays |-> <<>>, badFrame |-> 0],
   image |-> sampleImage(2, 1, seed)]

AppFrames == MaxFrames - 1

Files ==
  { gifFile(<<"a", "gif">>, 0, AppFrames, 0, TRUE),       \* decodes
    gifFile(<<"b", "gif">>, 1, AppFrames, AppFrames, TRUE), \* its last frame is invalid
    otherFile(<<"d", "v2", "png">>, "image/png", 0),
    otherFile(<<"e", "txt">>, "text/plain", 0) }

PixelSizeChoices == {MinPixelSize, InitialSettings.pixelSize}
LevelsChoices == {MinLevels, InitialSettings.levels}
PaletteChoices == {0, 1}
\* the mode tabs exercised: the initial mode and the one that shows the palettes
ModeChoices == {InitialSettings.colorMode, "palette"}

\* the synchronous part of a handleExport call is running
Busy == \E e \in DOMAIN exports : exports[e].pc = "processing"

freeLoad == CHOOSE n \in DOMAIN loads : loads[n].pc = "idle" /\ \A m \in 1..(n - 1) : loads[m].pc # "idle"
freeExport == CHOOSE e \in DOMAIN exports : exports[e].pc = "idle" /\ \A m \in 1..(e - 1) : exports[m].pc # "idle"

\* handleFile up to its await (GIF), to img.src = ... (image) or to the alert
SelectFile(f) ==
  /\ ~Busy
  /\ fileType = "null"
  /\ \E n \in DOMAIN loads : loads[n].pc = "idle"
  /\ fileName' = f.name
  /\ LET newType   == IF f.type = "image/gif" THEN "gif"
                      ELSE IF f.type \in {"image/png", "image/jpeg"} THEN "image"
                      ELSE "null"
         newFrames == IF newType = "image" THEN <<>> ELSE gifFrames
         src       == mounted(sourceCanvas, fileType, newType)
         res       == mounted(resultCanvas, fileType, newType)
     IN  /\ fileType' = newType
         /\ gifFrames' = framesAfterEffect(newType, newFrames, imageRef, getMosaicOpts(settings))
         /\ sourceCanvas' = src
         /\ resultCanvas' = reapplyMosaic(res, src, newType, newFrames, imageRef,
                                          getMosaicOpts(settings))
         /\ loads' = [loads EXCEPT ![freeLoad] =
                        IF newType = "null" THEN [pc |-> "alerted"]
                        ELSE [pc |-> IF newType = "gif" THEN "decoding" ELSE "loading",
                              file |-> f]]
  /\ UNCHANGED <<pf, gd, ge, mc, pb, settings, dimensions, imageRef, processing, exports, downloads>>

\* handleFile after  await file.arrayBuffer()  , parseGif throwing
GifLoadFails(n) ==
  /\ ~Busy
  /\ loads[n].pc = "decoding"
  /\ parseGif(loads[n].file.gif).status = "threw"
  /\ loads' = [loads EXCEPT ![n] = [pc |-> "failed", file |-> loads[n].file]]
  /\ UNCHANGED <<pf, gd, ge, mc, pb, settings, fileType, fileName, gifFrames, dimensions, imageRef,
                 sourceCanvas, resultCanvas, processing, exports, downloads>>

\* handleFile after  await file.arrayBuffer()  , parseGif returning.  With no
\* canvas element (the file was reset meanwhile)  canvas.width = ...  throws a
\* TypeError after setGifFrames(frames).
GifLoaded(n) ==
  /\ ~Busy
  /\ loads[n].pc = "decoding"
  /\ LET parse  == parseGif(loads[n].file.gif)
         frames == parse.frames
         draws  == Len(frames) > 0 /\ sourceCanvas.kind # "null"
         throws == Len(frames) > 0 /\ sourceCanvas.kind = "null"
         src    == IF draws
                   THEN [kind |-> "drawn", img |-> frames[1].imageData]
                   ELSE sourceCanvas
     IN  /\ parse.status = "returned"
         /\ gifFrames' = framesAfterEffect(fileType, frames, imageRef, getMosaicOpts(settings))
         /\ sourceCanvas' = src
         /\ dimensions' = IF draws
                          THEN [w |-> frames[1].imageData.width, h |-> frames[1].imageData.height]
                          ELSE dimensions
         /\ resultCanvas' = reapplyMosaic(resultCanvas, src, fileType, frames, imageRef,
                                          getMosaicOpts(settings))
         /\ loads' = [loads EXCEPT ![n] =
                        [pc |-> "decoded", file |-> loads[n].file, crashed |-> throws]]
  /\ UNCHANGED <<pf, gd, ge, mc, pb, settings, fileType, fileName, imageRef, processing, exports, downloads>>

\* img.onload.  No dependency of the effect changes, so it does not run.  With
\* no canvas element the handler throws a TypeError after setting imageRef.
ImageLoaded(n) ==
  /\ ~Busy
  /\ loads[n].pc = "loading"
  /\ imageRef' = loads[n].file.name
  /\ loads' = [loads EXCEPT ![n] = [pc |-> "loaded", file |-> loads[n].file,
                                      crashed |-> sourceCanvas.kind = "null"]]
  /\ IF sourceCanvas.kind = "null"
     THEN UNCHANGED <<sourceCanvas, dimensions, fileName>>
     ELSE /\ sourceCanvas' = [kind |-> "drawn", img |-> loads[n].file.image]
          /\ dimensions' = [w |-> loads[n].file.image.width, h |-> loads[n].file.image.height]
          /\ fileName' = loads[n].file.name
  /\ UNCHANGED <<pf, gd, ge, mc, pb, settings, fileType, gifFrames, resultCanvas, processing, exports, downloads>>

\* handleReset
Reset ==
  /\ ~Busy
  /\ fileType # "null"
  /\ fileType' = "null"
  /\ fileName' = <<"">>
  /\ gifFrames' = <<>>
  /\ dimensions' = [w |-> 0, h |-> 0]
  /\ imageRef' = NoImage
  /\ sourceCanvas' = mounted(sourceCanvas, fileType, "null")
  /\ resultCanvas' = mounted(resultCanvas, fileType, "null")
  /\ UNCHANGED <<pf, gd, ge, mc, pb, settings, processing, loads, exports, downloads>>

\* a slider, a mode tab or a palette button sets one setting; the effect
\* "Re-apply mosaic" runs after the render
ChangeSettings(s) ==
  /\ ~Busy
  /\ s # settings
  /\ settings' = s
  /\ resultCanvas' = reapplyMosaic(resultCanvas, sourceCanvas, fileType, gifFrames, imageRef,
                                   getMosaicOpts(s))
  /\ gifFrames' = framesAfterEffect(fileType, gifFrames, imageRef, getMosaicOpts(s))
  /\ UNCHANGED <<pf, gd, ge, mc, pb, fileType, fileName, dimensions, imageRef, sourceCanvas,
                 processing, loads, exports, downloads>>

SetPixelSize == \E v \in PixelSizeChoices : ChangeSettings([settings EXCEPT !.pixelSize = v])

SetColorMode == \E m \in ModeChoices : ChangeSettings([settings EXCEPT !.colorMode = m])

\* the levels slider is rendered outside palette mode only
SetLevels ==
  /\ settings.colorMode # "palette"
  /\ \E v \in LevelsChoices : ChangeSettings([settings EXCEPT !.levels = v])

\* the palette picker is rendered in palette mode only
SetPaletteIndex ==
  /\ settings.colorMode = "palette"
  /\ \E i \in PaletteChoices : ChangeSettings([settings EXCEPT !.paletteIndex = i])

\* which branch of handleExport a click takes
exportBranch(type, frames) ==
  IF type = "image" THEN "image"
  ELSE IF type = "gif" /\ Len(frames) > 0 THEN "gif"
  ELSE "none"

\* the element gifFrames.map builds for one frame
processedFrame(f, opts) ==
  [imageData |-> processFrame(f.imageData, opts), delay |-> f.delay]

\* the map is left after one frame
mapCompleteEarly(run) == Len(run.processed) >= 1

\* gifFrames.map has visited every frame
mapComplete(run) == Len(run.processed) = Len(run.frames)

\* a rejected encodeGif starts the run over
settledPcRetry(settles) == IF settles = "resolved" THEN "done" ELSE "idle"

\* where a run stands once encodeGif has settled
settledPc(settles) == IF settles = "resolved" THEN "done" ELSE "failed"

downloadName(name, ext) == [prefix |-> "mosaic-", base |-> baseName(name), ext |-> ext]

\* a button disabled only while there is no file
exportDisabledNoFile(type, isProcessing) == type = "null"

\* the export button: disabled={!fileType || processing}
exportDisabled(type, isProcessing) == type = "null" \/ isProcessing

\* a handler without the finally block: processing is reset only after
\* downloadBlob
processingAfterNoFinally(settles) == settles # "resolved"

\* processing once the finally block has run, however encodeGif settled
processingAfter(settles) == FALSE

\* handleExport up to toBlob (image) or into the frame loop (GIF); the button
\* is disabled while there is no file or processing is set
ExportClick ==
  /\ ~Busy
  /\ ~exportDisabled(fileType, processing)
  /\ \E e \in DOMAIN exports : exports[e].pc = "idle"
  /\ exportBranch(fileType, gifFrames) # "none"
  /\ IF exportBranch(fileType, gifFrames) = "image"
     THEN /\ exports' = [exports EXCEPT ![freeExport] =
                           [pc |-> "toBlob", kind |-> "image", name |-> fileName,
                            png |-> canvasImage(resultCanvas)]]
          /\ UNCHANGED processing
     ELSE /\ exports' = [exports EXCEPT ![freeExport] =
                           [pc |-> "processing", kind |-> "gif", name |-> fileName,
                            opts |-> getMosaicOpts(settings), frames |-> gifFrames,
                            width |-> gifFrames[1].imageData.width,
                            height |-> gifFrames[1].imageData.height,
                            processed |-> <<>>]]
          /\ processing' = TRUE
  /\ UNCHANGED <<pf, gd, ge, mc, pb, settings, fileType, fileName, gifFrames, dimensions, imageRef,
                 sourceCanvas, resultCanvas, loads, downloads>>

\* one call of the callback of gifFrames.map.  The frames of the run are the
\* objects of the gifFrames state, which cannot have changed since the click.
ExportProcessFrame(e) ==
  /\ exports[e].pc = "processing"
  /\ ~mapComplete(exports[e])
  /\ LET i     == Len(exports[e].processed) + 1
         after == processFrameRun(exports[e].frames[i].imageData, exports[e].opts).input
     IN  /\ exports' = [exports EXCEPT
                          ![e].processed = Append(@, processedFrame(exports[e].frames[i],
                                                                    exports[e].opts)),
                          ![e].frames[i].imageData = after]
         /\ gifFrames' = [gifFrames EXCEPT ![i].imageData = after]
  /\ UNCHANGED <<pf, gd, ge, mc, pb, settings, fileType, fileName, dimensions, imageRef,
                 sourceCanvas, resultCanvas, processing, loads, downloads>>

\* encodeGif(processed, width, height) is called and the handler awaits it
ExportEncode(e) ==
  /\ exports[e].pc = "processing"
  /\ mapComplete(exports[e])
  /\ exports' = [exports EXCEPT ![e] =
                   [pc |-> "encoding", kind |-> "gif", name |-> exports[e].name,
                    opts |-> exports[e].opts, frames |-> exports[e].frames,
                    call |-> encodeCall(exports[e].processed, exports[e].width,
                                        exports[e].height)]]
  /\ UNCHANGED <<pf, gd, ge, mc, pb, settings, fileType, fileName, gifFrames, dimensions, imageRef,
                 sourceCanvas, resultCanvas, processing, loads, downloads>>

\* encodeGif settles: downloadBlob on success, and the finally block
ExportSettles(e) ==
  /\ ~Busy
  /\ exports[e].pc = "encoding"
  /\ \E settles \in {"resolved", "rejected"} :
       /\ exports' = [exports EXCEPT ![e] = [pc |-> settledPc(settles), kind |-> "gif"]]
       /\ downloads' = IF settles = "resolved"
                       THEN Append(downloads,
                                   [blob |-> gifBytes(exports[e].call),
                                    filename |-> downloadName(exports[e].name, "gif")])
                       ELSE downloads
       /\ processing' = processingAfter(settles)
  /\ UNCHANGED <<pf, gd, ge, mc, pb, settings, fileType, fileName, gifFrames, dimensions, imageRef,
                 sourceCanvas, resultCanvas, loads>>

\* the callback of canvas.toBlob
ToBlobDone(e) ==
  /\ ~Busy
  /\ exports[e].pc = "toBlob"
  /\ exports' = [exports EXCEPT ![e] = [pc |-> "done", kind |-> "image"]]
  /\ downloads' = Append(downloads,
                         [blob |-> exports[e].png,
                          filename |-> downloadName(exports[e].name, "png")])
  /\ UNCHANGED <<pf, gd, ge, mc, pb, settings, fileType, fileName, gifFrames, dimensions, imageRef,
                 sourceCanvas, resultCanvas, processing, loads>>

Init == AppInit /\ FrameOff /\ DecodeOff /\ EncodeOff /\ ColorOff /\ PlayOff

Next ==
  \/ \E f \in Files : SelectFile(f)
  \/ \E n \in DOMAIN loads : GifLoadFails(n)
  \/ \E n \in DOMAIN loads : GifLoaded(n)
  \/ \E n \in DOMAIN loads : ImageLoaded(n)
  \/ Reset
  \/ SetPixelSize
  \/ SetColorMode
  \/ SetLevels
  \/ SetPaletteIndex
  \/ ExportClick
  \/ \E e \in DOMAIN exports : ExportProcessFrame(e)
  \/ \E e \in DOMAIN exports : ExportEncode(e)
  \/ \E e \in DOMAIN exports : ExportSettles(e)
  \/ \E e \in DOMAIN exports : ToBlobDone(e)

Spec == Init /\ [][Next]_vars

(***************************************************************************)
(* Claims on the component                                                 *)
(***************************************************************************)
\* the steps a GIF load (handleFile) may take
DecodeEdges == {<<"idle", "decoding">>, <<"decoding", "decoded">>, <<"decoding", "failed">>}

\* the steps a GIF export (handleExport) may take
ExportEdges ==
  {<<"idle", "processing">>, <<"processing", "encoding">>, <<"processing", "failed">>,
   <<"encoding", "done">>, <<"encoding", "failed">>}

isGifLoad(l) == l.pc \in {"decoding", "decoded", "failed"}
isGifExport(x) == x.pc \in {"processing", "encoding"} \/ (x.pc \in {"done", "failed"} /\ x.kind = "gif")

\* C1: a GIF conversion moves only along Idle -> Decoding -> Processing ->
\* Encoding -> Done; a throwing parseGif, processFrame or encodeGif takes it to
\* Failed; no other step exists and nothing follows Done or Failed.  Decoding
\* is a handleFile call, Processing / Encoding / Done a handleExport call, and
\* Processing only ever starts on frames a completed Decoding stored.
C1_RunStateMachine ==
  [][ /\ \A n \in DOMAIN loads :
           (isGifLoad(loads[n]) \/ isGifLoad(loads'[n])) =>
             (loads'[n] = loads[n] \/ <<loads[n].pc, loads'[n].pc>> \in DecodeEdges)
      /\ \A e \in DOMAIN exports :
           (isGifExport(exports[e]) \/ isGifExport(exports'[e])) =>
             /\ \/ exports'[e].pc = exports[e].pc
                \/ <<exports[e].pc, exports'[e].pc>> \in ExportEdges
             /\ (exports[e].pc \in {"done", "failed"} => exports'[e] = exports[e])
      /\ \A e \in DOMAIN exports :
           (exports[e].pc = "idle" /\ exports'[e].pc = "processing") =>
             /\ exports'[e].frames # <<>>
             /\ \E n \in DOMAIN loads :
                  /\ loads[n].pc = "decoded"
                  /\ exports'[e].frames = parseGif(loads[n].file.gif).frames
    ]_vars

\* a conversion that went all the way from a stored decoding to Done
C1_Witness ==
  /\ \E n \in DOMAIN loads : loads[n].pc = "decoded"
  /\ \E e \in DOMAIN exports : exports[e].pc = "done" /\ exports[e].kind = "gif"

\* C2: last settings change wins.  A GIF export whose options are no longer
\* the current ones when encodeGif settles is abandoned: its blob never
\* reaches downloadBlob; and whatever the result canvas shows was computed
\* under the current settings.
C2_LastSettingsWin ==
  [][ /\ \A e \in DOMAIN exports :
           (exports[e].pc = "encoding" /\ exports'[e].pc = "done" /\ Len(downloads') > Len(downloads))
             => exports[e].opts = getMosaicOpts(settings)
      /\ (resultCanvas'.kind = "drawn" => resultCanvas'.opts = getMosaicOpts(settings'))
    ]_vars

\* C3: encodeGif is called only after all N frames were transformed, with
\* exactly N elements, element i being processFrame(gifFrames[i], opts) paired
\* with gifFrames[i].delay, all under the options read at the click.
C3_EncodeAfterAllFrames ==
  /\ [][ \A e \in DOMAIN exports :
           (exports[e].pc = "idle" /\ exports'[e].pc = "processing") =>
             (exports'[e].frames = gifFrames /\ exports'[e].opts = getMosaicOpts(settings)) ]_vars
  /\ [](\A e \in DOMAIN exports :
          exports[e].pc = "encoding" =>
            LET run == exports[e]
                N   == Len(run.frames)
            IN  /\ N >= 1
                /\ Len(run.call.frames) = N
                /\ \A i \in 1..N :
                     /\ run.call.frames[i].data
                          = processFrameRun(run.frames[i].imageData, run.opts).output.data
                     /\ run.call.frames[i].delay = run.frames[i].delay
                /\ run.call.width = run.frames[1].imageData.width
                /\ run.call.height = run.frames[1].imageData.height)

\* encodeGif has been called on an animation of at least two frames
C3_Witness ==
  \E e \in DOMAIN exports :
    /\ exports[e].pc = "encoding"
    /\ Len(exports[e].frames) >= 2
    /\ exports[e].frames[1].delay # exports[e].frames[2].delay

\* a file whose decoding fails: no GIF signature, or an invalid frame
decodingFails(gif) == ~gif.signatureOk \/ gif.badFrame # 0

\* the frames of such a file that decode before the invalid one
framesBeforeFailure(gif) ==
  IF ~gif.signatureOk THEN <<>>
  ELSE [i \in 1..(gif.badFrame - 1) |->
          [imageData |-> decodedImage(gif, i), delay |-> frameDelay(gif.delays[i])]]

\* C7: when decoding fails, after k frames or at the signature, parseGif
\* returns no frames: the failing handleFile call changes nothing, and no
\* prefix of the file's frames is ever in gifFrames or on a canvas.
C7_NoPartialFrames ==
  /\ [][ \A n \in DOMAIN loads :
           (loads[n].pc = "decoding" /\ decodingFails(loads[n].file.gif) /\ loads'[n] # loads[n])
             => /\ loads'[n].pc = "failed"
                /\ UNCHANGED <<gifFrames, sourceCanvas, resultCanvas, dimensions, fileType,
                               fileName>> ]_vars
  /\ [](\A f \in Files :
          (f.type = "image/gif" /\ decodingFails(f.gif)) =>
            LET pre == framesBeforeFailure(f.gif)
            IN  \A k \in 1..Len(pre) :
                  /\ gifFrames # SubSeq(pre, 1, k)
                  /\ (sourceCanvas.kind = "drawn" => sourceCanvas.img # pre[1].imageData))

\* a load failed at a frame after at least one frame had been decoded
C7_Witness ==
  \E n \in DOMAIN loads :
    /\ loads[n].pc = "failed"
    /\ loads[n].file.gif.signatureOk
    /\ loads[n].file.gif.badFrame >= 2

(***************************************************************************)
(* Specification of one call of a colour function on arbitrary arguments   *)
(***************************************************************************)
\* the values given to quantize: every byte and every half between two bytes
QuantizeInputs == {(Unit \div 2) * h : h \in 0..(2 * 255)}

AllLevels == (MinLevels - 1)..(MaxLevels + 1)

\* the sampled colours, whose double luminance the model knows
SampleColors == ByteSamples \X ByteSamples \X ByteSamples

\* the colours of the built-in palettes
PaletteEntries ==
  UNION {{PALETTES[p].colors[i] : i \in DOMAIN PALETTES[p].colors} : p \in DOMAIN PALETTES}

\* options given to mapColor: every levels in the two quantizing modes, every
\* built-in palette and none in palette mode
ColorOptionsInputs ==
  [pixelSize : {DEFAULT_OPTIONS.pixelSize}, colorMode : {"grayscale", "color"},
   levels : AllLevels, palette : {NoPalette}]
  \cup [pixelSize : {DEFAULT_OPTIONS.pixelSize}, colorMode : {"palette"},
        levels : {DEFAULT_OPTIONS.levels},
        palette : {NoPalette} \cup {PALETTES[p] : p \in DOMAIN PALETTES}]

\* palettes given to closestPaletteColor: the built-in ones, and palettes in
\* which two entries are at the same distance of a sampled colour, or equal
PaletteColorsInputs ==
  {PALETTES[p].colors : p \in DOMAIN PALETTES}
  \cup { << <<0, 0, 22>>, <<0, 0, 0>> >>,
         << <<255, 255, 255>>, <<0, 22, 0>>, <<22, 0, 0>>, <<0, 0, 22>> >>,
         << <<68, 68, 68>>, <<11, 0, 0>>, <<11, 0, 0>> >>,
         << <<204, 205, 255>> >> }

(***************************************************************************)
(* drawShape, case 'ascii' (the version of mosaic.ts with shapes).  A      *)
(* brightness is a number of units of 1/(255 * Unit): the caller's         *)
(* toGray(origR, origG, origB) / 255.                                      *)
(***************************************************************************)
\* const ASCII_CHARS = '@%#*+=-:. '
ASCII_CHARS == <<"@", "%", "#", "*", "+", "=", "-", ":", ".", " ">>

BrightnessOne == 255 * Unit

\* const brightness = toGray(origR, origG, origB) / 255
brightnessOf(r, g, b) == toGray(r, g, b)

\* Math.floor((1 - brightness) * (ASCII_CHARS.length - 1))
charIdx(brightness) ==
  ((Len(ASCII_CHARS) - 1) * (BrightnessOne - brightness)) \div BrightnessOne

\* ASCII_CHARS[Math.max(0, Math.min(charIdx, ASCII_CHARS.length - 1))]
asciiGlyph(brightness) ==
  LET clamped == IF Min(charIdx(brightness), Len(ASCII_CHARS) - 1) < 0 THEN 0
                 ELSE Min(charIdx(brightness), Len(ASCII_CHARS) - 1)
  IN  ASCII_CHARS[clamped + 1]

InitColor ==
  /\ AppInit /\ FrameOff /\ DecodeOff /\ EncodeOff /\ PlayOff
  /\ \/ \E v \in QuantizeInputs, l \in AllLevels :
          mc = [pc |-> "called", fn |-> "quantize", value |-> v, levels |-> l]
     \/ \E c \in SampleColors, o \in ColorOptionsInputs :
          mc = [pc |-> "called", fn |-> "mapColor", rgb |-> c, opts |-> o]
     \/ \E c \in PaletteEntries, o \in ColorOptionsInputs :
          /\ o.colorMode = "palette"
          /\ mc = [pc |-> "called", fn |-> "mapColor", rgb |-> c, opts |-> o]
     \/ \E c \in SampleColors, colors \in PaletteColorsInputs :
          mc = [pc |-> "called", fn |-> "closestPaletteColor", rgb |-> c, palette |-> colors]
     \/ \E c \in SampleColors :
          mc = [pc |-> "called", fn |-> "drawShape", shape |-> "ascii", rgb |-> c,
                brightness |-> brightnessOf(c[1], c[2], c[3])]

RunQuantize ==
  /\ mc.pc = "called" /\ mc.fn = "quantize"
  /\ mc' = [pc |-> "ran", fn |-> "quantize", value |-> mc.value, levels |-> mc.levels,
            result |-> quantize(mc.value, mc.levels)]
  /\ UNCHANGED <<pf, gd, ge, pb>>
  /\ UNCHANGED appVars

RunMapColor ==
  /\ mc.pc = "called" /\ mc.fn = "mapColor"
  /\ mc' = [pc |-> "ran", fn |-> "mapColor", rgb |-> mc.rgb, opts |-> mc.opts,
            result |-> mapColor(mc.rgb[1], mc.rgb[2], mc.rgb[3], mc.opts)]
  /\ UNCHANGED <<pf, gd, ge, pb>>
  /\ UNCHANGED appVars

RunClosestPaletteColor ==
  /\ mc.pc = "called" /\ mc.fn = "closestPaletteColor"
  /\ mc' = [pc |-> "ran", fn |-> "closestPaletteColor", rgb |-> mc.rgb, palette |-> mc.palette,
            result |-> closestPaletteColor(mc.rgb[1], mc.rgb[2], mc.rgb[3], mc.palette)]
  /\ UNCHANGED <<pf, gd, ge, pb>>
  /\ UNCHANGED appVars

\* the glyph drawShape hands to fillText for the Ascii shape
RunDrawShape ==
  /\ mc.pc = "called" /\ mc.fn = "drawShape"
  /\ mc' = [pc |-> "ran", fn |-> "drawShape", shape |-> mc.shape, rgb |-> mc.rgb,
            brightness |-> mc.brightness, result |-> asciiGlyph(mc.brightness)]
  /\ UNCHANGED <<pf, gd, ge, pb>>
  /\ UNCHANGED appVars

NextColor == RunQuantize \/ RunMapColor \/ RunClosestPaletteColor \/ RunDrawShape

SpecColor == InitColor /\ [][NextColor]_vars

\* C11: quantize is idempotent: for every v in 0..255 and every levels in
\* 2..8, quantizing the quantized value again with the same levels returns it.
C11_QuantizeIdempotent ==
  (mc.pc = "ran" /\ mc.fn = "quantize" /\ validLevels(mc.levels)) =>
    quantize(Unit * mc.result, mc.levels) = mc.result

\* a level that is not a multiple of the step: 127.5 is rounded to 128, and
\* 128 is quantized to 128 again
C11_Witness ==
  /\ mc.pc = "ran" /\ mc.fn = "quantize"
  /\ mc.levels = 3 /\ mc.value = 100 * Unit /\ mc.result = 128

\* C12: in grayscale mode, for levels in 2..8, mapColor returns (q, q, q) with
\* q = round(round(Y / step) * step), Y = 0.299 r + 0.587 g + 0.114 b and
\* step = 255 / (levels - 1), round rounding halves up; pure red with
\* levels = 2 maps to (0, 0, 0).
C12_GrayscaleFormula ==
  (/\ mc.pc = "ran" /\ mc.fn = "mapColor"
   /\ mc.opts.colorMode = "grayscale" /\ validLevels(mc.opts.levels)) =>
    LET n == mc.opts.levels - 1
        Y == exactGray(mc.rgb[1], mc.rgb[2], mc.rgb[3])
        \* m = round(num / den), halves up
        rounds(m, num, den) == (2 * m - 1) * den <= 2 * num /\ 2 * num < (2 * m + 1) * den
    IN  /\ \E k \in 0..n, q \in 0..255 :
             /\ rounds(k, Y * n, 255 * Unit)
             /\ rounds(q, k * 255, n)
             /\ mc.result = <<q, q, q>>
        /\ (mc.rgb = <<255, 0, 0>> /\ mc.opts.levels = 2) => mc.result = <<0, 0, 0>>

\* C13: for every colour and every non-empty palette, closestPaletteColor
\* returns an entry of the palette at the least squared Euclidean distance of
\* the colour, and of several such entries the one of lowest index.
C13_ClosestFirst ==
  (mc.pc = "ran" /\ mc.fn = "closestPaletteColor" /\ mc.palette # <<>>) =>
    LET dist(c) == (mc.rgb[1] - c[1]) * (mc.rgb[1] - c[1])
                   + (mc.rgb[2] - c[2]) * (mc.rgb[2] - c[2])
                   + (mc.rgb[3] - c[3]) * (mc.rgb[3] - c[3])
    IN  \E i \in DOMAIN mc.palette :
          /\ mc.result = mc.palette[i]
          /\ \A j \in DOMAIN mc.palette : dist(mc.palette[i]) <= dist(mc.palette[j])
          /\ \A j \in 1..(i - 1) : dist(mc.palette[j]) > dist(mc.palette[i])

\* two different entries at the same least distance: the first one is returned
C13_Witness ==
  /\ mc.pc = "ran" /\ mc.fn = "closestPaletteColor"
  /\ mc.rgb = <<0, 0, 11>>
  /\ mc.palette = << <<0, 0, 22>>, <<0, 0, 0>> >>
  /\ mc.result = <<0, 0, 22>>

\* C14: for every built-in palette and every entry e of it, mapping the
\* colour e in palette mode with that palette returns e itself; (155, 188, 15)
\* under the Game Boy palette maps to (155, 188, 15).
C14_PaletteEntryFixed ==
  (/\ mc.pc = "ran" /\ mc.fn = "mapColor"
   /\ mc.opts.colorMode = "palette"
   /\ \E p \in DOMAIN PALETTES :
        mc.opts.palette = PALETTES[p]
        /\ \E i \in DOMAIN PALETTES[p].colors : PALETTES[p].colors[i] = mc.rgb)
    => mc.result = mc.rgb

\* the fourth Game Boy colour mapped under the Game Boy palette
C14_Witness ==
  /\ mc.pc = "ran" /\ mc.fn = "mapColor"
  /\ mc.opts.colorMode = "palette" /\ mc.opts.palette = PALETTES[1]
  /\ PALETTES[1].name = "Game Boy" /\ PALETTES[1].colors[4] = <<155, 188, 15>>
  /\ mc.rgb = <<155, 188, 15>>
  /\ mc.result = <<155, 188, 15>>

(***************************************************************************)
(* Further claims on processFrame                                          *)
(***************************************************************************)
\* C15: every output pixel (px, py) of processFrame has the RGB value
\* mapColor(source pixel at (min(bx + floor(b/2), W-1), min(by + floor(b/2), H-1)))
\* with bx = b * floor(px / b), by = b * floor(py / b): one sample per block,
\* no averaging, and every pixel lies in a painted block.
C15_BlockSample ==
  (/\ pf.pc = "ran"
   /\ validPixelSize(pf.options.pixelSize) /\ validLevels(pf.options.levels)) =>
    LET W    == pf.imageData.width
        H    == pf.imageData.height
        b    == pf.options.pixelSize
        src  == pf.imageData.data
        out  == pf.run.output.data
        blocks == blockOrigins(W, H, b)
    IN  /\ pf.run.status = "returned"
        /\ \A px \in 0..(W - 1), py \in 0..(H - 1) :
             LET bx  == b * (px \div b)
                 by  == b * (py \div b)
                 cx  == Min(bx + (b \div 2), W - 1)
                 cy  == Min(by + (b \div 2), H - 1)
                 pos == (cy * W + cx) * 4
                 idx == (py * W + px) * 4
             IN  /\ <<out[idx + 1], out[idx + 2], out[idx + 3]>>
                      = mapColor(src[pos + 1], src[pos + 2], src[pos + 3], withDefaults(pf.options))
                 /\ \E k \in DOMAIN blocks :
                      idx \in blockPixels(blocks[k][1], blocks[k][2], b, W, H)

\* a frame of several blocks, the last ones clipped, painted in more than one
\* colour
C15_Witness ==
  /\ pf.pc = "ran" /\ pf.run.status = "returned"
  /\ pf.options.pixelSize = 2 /\ validLevels(pf.options.levels)
  /\ pf.imageData.width = 3 /\ pf.imageData.height = 3
  /\ \E i, j \in 0..8 :
       \E c \in 1..3 : pf.run.output.data[4 * i + c] # pf.run.output.data[4 * j + c]

\* C16: every pixel of the buffer processFrame returns has alpha 255, whatever
\* the alpha values of the source and for every valid options value.
C16_OpaqueOutput ==
  (/\ pf.pc = "ran"
   /\ validPixelSize(pf.options.pixelSize) /\ validLevels(pf.options.levels)) =>
    /\ pf.run.status = "returned"
    /\ Len(pf.run.output.data) = 4 * pf.imageData.width * pf.imageData.height
    /\ \A p \in 0..(pf.imageData.width * pf.imageData.height - 1) :
         pf.run.output.data[4 * p + 4] = 255

\* a source with a fully transparent and a partly transparent pixel
C16_Witness ==
  /\ pf.pc = "ran" /\ pf.run.status = "returned"
  /\ validPixelSize(pf.options.pixelSize) /\ validLevels(pf.options.levels)
  /\ \E p \in 0..(pf.imageData.width * pf.imageData.height - 1) :
       pf.imageData.data[4 * p + 4] = 0
  /\ \E p \in 0..(pf.imageData.width * pf.imageData.height - 1) :
       pf.imageData.data[4 * p + 4] \in 1..254

allocateShared(heap) == 1

\* output = new ImageData(width, height): an object no earlier call returned
allocate(heap) == Len(heap) + 1

\* the orders in which n frames can be visited
Orders(n) == {o \in [1..n -> 1..n] : \A i, j \in 1..n : o[i] = o[j] => i = j}

OrderOptionsInputs ==
  [pixelSize : {MinPixelSize}, colorMode : ColorModes, levels : {MinLevels, DEFAULT_OPTIONS.levels},
   palette : {PALETTES[1]}]

InitOrder ==
  /\ AppInit /\ DecodeOff /\ EncodeOff /\ ColorOff /\ PlayOff
  /\ \E n \in 1..MaxFrames, w \in 1..2, seed \in 0..(Len(SamplePixels) - 1),
        o \in OrderOptionsInputs :
       \E order \in Orders(n) :
         pf = [pc |-> "mapping",
               source |-> [i \in 1..n |-> sampleImage(w, 1, seed + i)],
               frames |-> [i \in 1..n |-> sampleImage(w, 1, seed + i)],
               options |-> o, order |-> order, done |-> 0,
               heap |-> <<>>, result |-> [i \in 1..n |-> 0]]

\* the next frame in the order is transformed and its result kept under its
\* source index
ProcessNextFrame ==
  /\ pf.pc = "mapping"
  /\ pf.done < Len(pf.frames)
  /\ LET i   == pf.order[pf.done + 1]
         run == processFrameRun(pf.frames[i], pf.options)
         id  == allocate(pf.heap)
     IN  pf' = [pf EXCEPT !.done = @ + 1,
                          !.frames[i] = run.input,
                          !.heap = IF id > Len(@) THEN Append(@, run.output)
                                   ELSE [@ EXCEPT ![id] = run.output],
                          !.result[i] = id]
  /\ UNCHANGED <<gd, ge, mc, pb>>
  /\ UNCHANGED appVars

\* every frame has been transformed: the results are read by source index
Reassemble ==
  /\ pf.pc = "mapping"
  /\ pf.done = Len(pf.frames)
  /\ pf' = [pc |-> "mapped", source |-> pf.source, options |-> pf.options,
            order |-> pf.order,
            output |-> [i \in DOMAIN pf.result |-> pf.heap[pf.result[i]]]]
  /\ UNCHANGED <<gd, ge, mc, pb>>
  /\ UNCHANGED appVars

NextOrder == ProcessNextFrame \/ Reassemble

SpecOrder == InitOrder /\ [][NextOrder]_vars

C19_AsciiGlyph ==
  (mc.pc = "ran" /\ mc.fn = "drawShape" /\ mc.shape = "ascii") =>
    LET last    == Len(ASCII_CHARS) - 1
        \* round((1 - brightness) * 9), halves up
        rounded == (2 * last * (BrightnessOne - mc.brightness) + BrightnessOne)
                     \div (2 * BrightnessOne)
        clamped == IF rounded < 0 THEN 0 ELSE Min(rounded, last)
    IN  /\ mc.result = ASCII_CHARS[clamped + 1]
        /\ mc.brightness = BrightnessOne => mc.result = " "
        /\ mc.brightness = 0 => mc.result = "@"

(***************************************************************************)
(* Further claims on the transforms.                                       *)
(***************************************************************************)
\* C20: applyMosaic and processFrame compute the same result: for every source
\* pixel buffer, every pixelSize in 2..50 and every colour mode, the pixels
\* applyMosaic leaves on the target canvas equal the buffer processFrame
\* returns.
C20_SameTransform ==
  (pf.pc = "applied" /\ validPixelSize(pf.options.pixelSize)) =>
    /\ pf.run.status = "returned"
    /\ pf.target.width = pf.run.output.width
    /\ pf.target.height = pf.run.output.height
    /\ pf.target.data = pf.run.output.data

\* blocks clipped at the right and bottom edges, painted in different colours
C20_Witness ==
  /\ pf.pc = "applied"
  /\ pf.options.pixelSize = 2 /\ pf.pixels.width = 3 /\ pf.pixels.height = 3
  /\ pf.options.colorMode = "palette" /\ pf.options.palette # NoPalette
  /\ pf.target.data = pf.run.output.data
  /\ \E i, j \in 1..3 : pf.target.data[i] # pf.target.data[4 * 2 + j]

(***************************************************************************)
(* Specification of the block loops of processFrame and applyMosaic, one   *)
(* step per evaluation of a loop condition:                                *)
(*   for (bx = 0; bx < width; bx += pixelSize)                             *)
(*     for (by = 0; by < height; by += pixelSize) { paint the block }      *)
(* visited is the sequence of origins the body ran for, painted the number *)
(* of times each pixel was stored to by a body.                            *)
(***************************************************************************)
\* an increment of one pixel whatever the block size
advanceByOne(v, pixelSize) == v + 1

\* bx += pixelSize, by += pixelSize
advance(v, pixelSize) == v + pixelSize

LoopDims == 1..(2 * MaxDim)

LoopPixelSizes == (MinPixelSize..MaxBlock) \cup {MaxPixelSize}

InitLoop ==
  /\ AppInit /\ DecodeOff /\ EncodeOff /\ ColorOff /\ PlayOff
  /\ \E w \in LoopDims, h \in LoopDims, b \in LoopPixelSizes,
        fn \in {"processFrame", "applyMosaic"} :
       pf = [pc |-> "outer", fn |-> fn, width |-> w, height |-> h, pixelSize |-> b,
             bx |-> 0, by |-> 0, visited |-> <<>>,
             painted |-> [p \in 0..(w * h - 1) |-> 0]]

\* bx < width holds: the inner loop starts, by = 0
EnterColumn ==
  /\ pf.pc = "outer" /\ pf.bx < pf.width
  /\ pf' = [pf EXCEPT !.pc = "inner", !.by = 0]
  /\ UNCHANGED <<gd, ge, mc, pb>>
  /\ UNCHANGED appVars

\* by < height holds: the body paints the block at (bx, by), clipped to the
\* buffer (processFrame by maxX / maxY, applyMosaic by the canvas), then
\* by += pixelSize
PaintBlockStep ==
  /\ pf.pc = "inner" /\ pf.by < pf.height
  /\ LET px == IF pf.fn = "processFrame"
               THEN {p \div 4 : p \in blockPixels(pf.bx, pf.by, pf.pixelSize, pf.width, pf.height)}
               ELSE {yy * pf.width + xx :
                       xx \in pf.bx..(Min(pf.bx + pf.pixelSize, pf.width) - 1),
                       yy \in pf.by..(Min(pf.by + pf.pixelSize, pf.height) - 1)}
     IN  pf' = [pf EXCEPT !.visited = Append(@, <<pf.bx, pf.by>>),
                          !.painted = [p \in DOMAIN @ |-> IF p \in px THEN @[p] + 1 ELSE @[p]],
                          !.by = advance(pf.by, pf.pixelSize)]
  /\ UNCHANGED <<gd, ge, mc, pb>>
  /\ UNCHANGED appVars

\* by < height fails: the inner loop ends, bx += pixelSize
LeaveColumn ==
  /\ pf.pc = "inner" /\ pf.by >= pf.height
  /\ pf' = [pf EXCEPT !.pc = "outer", !.bx = advance(pf.bx, pf.pixelSize)]
  /\ UNCHANGED <<gd, ge, mc, pb>>
  /\ UNCHANGED appVars

\* bx < width fails: the loops are left
LeaveLoops ==
  /\ pf.pc = "outer" /\ pf.bx >= pf.width
  /\ pf' = [pf EXCEPT !.pc = "left"]
  /\ UNCHANGED <<gd, ge, mc, pb>>
  /\ UNCHANGED appVars

NextLoop == EnterColumn \/ PaintBlockStep \/ LeaveColumn \/ LeaveLoops

\* the function keeps running until its loops are left
SpecLoop == InitLoop /\ [][NextLoop]_vars /\ WF_vars(NextLoop)

\* C21: for every width, height >= 1 and pixelSize in 2..50 the block loops of
\* processFrame and applyMosaic terminate, having visited exactly
\* ceil(W/b) * ceil(H/b) block origins, each once, and every pixel of the grid
\* belongs to exactly one block.
C21_LoopsTerminate ==
  /\ <>(pf.pc = "left")
  /\ [](pf.pc = "left" =>
          LET ceilDiv(a, b) == (a + b - 1) \div b
          IN  /\ Len(pf.visited) = ceilDiv(pf.width, pf.pixelSize) * ceilDiv(pf.height, pf.pixelSize)
              /\ \A i, j \in DOMAIN pf.visited : pf.visited[i] = pf.visited[j] => i = j
              /\ \A p \in DOMAIN pf.painted : pf.painted[p] = 1
              /\ pf.visited = blockOrigins(pf.width, pf.height, pf.pixelSize))

\* loops left after several blocks, the last ones clipped on both axes
C21_Witness ==
  /\ pf.pc = "left" /\ pf.fn = "processFrame"
  /\ pf.pixelSize = 2 /\ pf.width = 5 /\ pf.height = 3
  /\ Len(pf.visited) = 6

(***************************************************************************)
(* Specification of the component with GIF playback (the version of        *)
(* App.tsx with startGifPlayback).                                         *)
(*                                                                         *)
(* pb holds the hook state as last set (fileType, gifFrames, pixelSize,    *)
(* gifPlaying), the values of the last committed render (rendered: what    *)
(* the handlers on screen and the effects' dependency lists saw), the refs *)
(* gifTimerRef (0 = null) and gifFrameIndexRef, and the pending timeouts,  *)
(* each with the frames and options its playFrame closed over.  A frame is *)
(* its delay in ms.                                                        *)
(*                                                                         *)
(* React 19 renders synchronously the updates made in a discrete event     *)
(* handler (click, change) and runs that render's effects with it; updates *)
(* made after an await or inside an effect are rendered by a later task    *)
(* (Render), before which other events can be handled.                     *)
(***************************************************************************)
MaxTimers == 2
MaxSelections == 2

TimerIds == 1..(MaxTimers + 1)

PlayPixelSizes == {DEFAULT_OPTIONS.pixelSize, MinPixelSize}

\* the decoded GIFs: one of each length, delays as parseGif returns them
PlayGifs == {[i \in 1..n |-> frameDelay(i % 3)] : n \in 1..MaxFrames}

\* frame.delay || 100
timeoutDelay(delay) == IF delay = 0 THEN 100 ELSE delay

\* stopGifPlayback
stopGifPlayback(r) ==
  [r EXCEPT !.timers = {t \in @ : t.id # r.gifTimerRef},
            !.gifTimerRef = 0,
            !.gifPlaying = FALSE,
            !.gifFrameIndexRef = 0]

\* window.setTimeout returns an id no pending timeout has
newTimerId(r) ==
  CHOOSE id \in TimerIds :
    /\ id # r.gifTimerRef
    /\ \A t \in r.timers : t.id # id
    /\ \A other \in TimerIds :
         (other # r.gifTimerRef /\ \A t \in r.timers : t.id # other) => id <= other

\* playFrame of a startGifPlayback that closed over frames and pixelSize.
\* With no frame at the index it returns; with the canvases unmounted
\* sourceCanvasRef.current is null and it throws before scheduling.
playFrame(r, frames, pixelSize) ==
  LET idx == r.gifFrameIndexRef
  IN  IF idx >= Len(frames) THEN r
      ELSE IF r.rendered.fileType = "null" THEN r
      ELSE [r EXCEPT !.shown = [frames |-> frames, index |-> idx, by |-> r.caller],
                     !.drawn = 1 - @,
                     !.gifFrameIndexRef = (idx + 1) % Len(frames),
                     !.gifTimerRef = newTimerId(r),
                     !.timers = @ \cup {[id |-> newTimerId(r), frames |-> frames,
                                         pixelSize |-> pixelSize,
                                         delay |-> timeoutDelay(frames[idx + 1])]}]

\* startGifPlayback of a render with these gifFrames and options
startGifPlayback(r, frames, pixelSize) ==
  IF Len(frames) < 2 THEN r
  ELSE playFrame([r EXCEPT !.gifPlaying = TRUE, !.gifFrameIndexRef = 0, !.caller = "start"],
                 frames, pixelSize)

\* the values a render of the hook state sees
hookState(r) ==
  [fileType |-> r.fileType, gifFrames |-> r.gifFrames, pixelSize |-> r.pixelSize,
   gifPlaying |-> r.gifPlaying]

\* A render is committed and its effects run: the cleanup of the auto-start
\* effect (deps gifFrames, fileType), then the stop effect (deps the
\* settings), then the auto-start effect.
commit(r) ==
  LET prev     == r.rendered
      cur      == hookState(r)
      loaded   == cur.gifFrames # prev.gifFrames \/ cur.fileType # prev.fileType
      r1       == [r EXCEPT !.rendered = cur]
      cleaned  == IF loaded THEN stopGifPlayback(r1) ELSE r1
      stopped  == IF cur.pixelSize # prev.pixelSize /\ cur.gifPlaying
                  THEN stopGifPlayback(cleaned) ELSE cleaned
  IN  IF loaded /\ cur.fileType = "gif" /\ Len(cur.gifFrames) > 1
      THEN startGifPlayback(stopped, cur.gifFrames, cur.pixelSize)
      ELSE stopped

NoFrame == [frames |-> <<>>, index |-> 0, by |-> "none"]

InitPlay ==
  /\ AppInit /\ FrameOff /\ DecodeOff /\ EncodeOff /\ ColorOff
  /\ pb = [pc |-> "mounted",
           fileType |-> "null", gifFrames |-> <<>>,
           pixelSize |-> DEFAULT_OPTIONS.pixelSize, gifPlaying |-> FALSE,
           rendered |-> [fileType |-> "null", gifFrames |-> <<>>,
                         pixelSize |-> DEFAULT_OPTIONS.pixelSize, gifPlaying |-> FALSE],
           gifTimerRef |-> 0, gifFrameIndexRef |-> 0, timers |-> {},
           pending |-> <<>>, selections |-> 0,
           shown |-> NoFrame, drawn |-> 0, caller |-> "none"]

\* room for one more pending timeout
TimerRoom == Cardinality(pb.timers) < MaxTimers

PlayUnchanged == UNCHANGED <<pf, gd, ge, mc>> /\ UNCHANGED appVars

\* handleFile on a GIF, up to its await: the upload zone is on screen only
\* while fileType is null
PlaySelectGif ==
  /\ pb.rendered.fileType = "null"
  /\ pb.selections < MaxSelections
  /\ TimerRoom
  /\ \E f \in PlayGifs :
       pb' = commit([pb EXCEPT !.fileType = "gif",
                               !.pending = Append(@, f),
                               !.selections = @ + 1])
  /\ PlayUnchanged

\* handleFile on an image
PlaySelectImage ==
  /\ pb.rendered.fileType = "null"
  /\ pb.selections < MaxSelections
  /\ pb' = commit([pb EXCEPT !.fileType = "image", !.gifFrames = <<>>,
                             !.selections = @ + 1])
  /\ PlayUnchanged

\* handleFile after its await: parseGif throws, or setGifFrames(frames)
PlayGifLoaded ==
  /\ \E i \in DOMAIN pb.pending, ok \in BOOLEAN :
       LET rest == [k \in 1..(Len(pb.pending) - 1) |->
                      IF k < i THEN pb.pending[k] ELSE pb.pending[k + 1]]
       IN  pb' = [pb EXCEPT !.pending = rest,
                            !.gifFrames = IF ok THEN pb.pending[i] ELSE @]
  /\ PlayUnchanged

\* the render of updates made outside a discrete event handler
PlayRender ==
  /\ hookState(pb) # pb.rendered
  /\ TimerRoom
  /\ pb' = commit(pb)
  /\ PlayUnchanged

\* the play / pause button: onClick = gifPlaying ? stopGifPlayback :
\* startGifPlayback, of the render on screen
PlayClick ==
  /\ pb.rendered.fileType = "gif" /\ Len(pb.rendered.gifFrames) > 1
  /\ TimerRoom
  /\ pb' = commit(IF pb.rendered.gifPlaying THEN stopGifPlayback(pb)
                  ELSE startGifPlayback(pb, pb.rendered.gifFrames, pb.rendered.pixelSize))
  /\ PlayUnchanged

\* the pixel-size slider (levels, mode, palette and shape act the same way)
PlaySetPixelSize ==
  /\ \E v \in PlayPixelSizes :
       /\ v # pb.rendered.pixelSize
       /\ pb' = commit([pb EXCEPT !.pixelSize = v])
  /\ PlayUnchanged

\* handleReset: the button is on screen while fileType is set
PlayReset ==
  /\ pb.rendered.fileType # "null"
  /\ pb' = commit([stopGifPlayback(pb) EXCEPT !.fileType = "null", !.gifFrames = <<>>])
  /\ PlayUnchanged

\* a pending timeout fires: its playFrame runs
PlayTimerFires ==
  /\ \E t \in pb.timers :
       pb' = playFrame([pb EXCEPT !.timers = @ \ {t}, !.caller = "timer"],
                       t.frames, t.pixelSize)
  /\ PlayUnchanged

NextPlay ==
  \/ PlaySelectGif \/ PlaySelectImage \/ PlayGifLoaded \/ PlayRender
  \/ PlayClick \/ PlaySetPixelSize \/ PlayReset \/ PlayTimerFires

SpecPlay == InitPlay /\ [][NextPlay]_vars

\* playback is running: gifPlaying is set or a playFrame is scheduled
playbackRunning(r) == r.gifPlaying \/ r.timers # {}

\* every update made so far has been rendered
settled(r) == hookState(r) = r.rendered

isSettingChange == pb.pc = "mounted" /\ pb'.pixelSize # pb.pixelSize
isReset == pb.pc = "mounted" /\ pb.rendered.fileType # "null" /\ pb'.rendered.fileType = "null"

\* C22: whenever a setting changes while GIF playback is running, or the file
\* is reset, playback stops: no timeout is left pending, gifTimerRef is null,
\* gifPlaying is false and the frame index is 0, so that no playFrame runs
\* again until playback is started anew.
C22_PlaybackStops ==
  [][((isSettingChange /\ settled(pb) /\ playbackRunning(pb)) \/ isReset) =>
       /\ pb'.timers = {}
       /\ pb'.gifTimerRef = 0
       /\ pb'.gifPlaying = FALSE
       /\ pb'.gifFrameIndexRef = 0]_vars

\* C23: at every moment at most one playback timeout is pending and
\* gifTimerRef refers to it.
C23_OneTimer ==
  pb.pc = "mounted" =>
    /\ Cardinality(pb.timers) <= 1
    /\ \A t \in pb.timers : t.id = pb.gifTimerRef

\* C24: while a GIF of N >= 2 frames is playing, frames are shown in index
\* order 0, 1, ..., N-1, 0, ...; frame i stays for gifFrames[i].delay ms before
\* the next one is scheduled; the index is in 0..N-1; playback never starts for
\* a GIF of fewer than 2 frames.
C24_FramesInOrder ==
  [][(pb.pc = "mounted" /\ pb'.drawn # pb.drawn) =>
       LET frames == pb'.rendered.gifFrames
           N      == Len(frames)
           i      == pb'.shown.index
       IN  /\ N >= 2
           /\ pb'.shown.frames = frames
           /\ i \in 0..(N - 1)
           /\ pb'.gifFrameIndexRef = (i + 1) % N
           \* the one timeout pending is the one this frame scheduled
           /\ Cardinality(pb'.timers) = 1
           /\ \A t \in pb'.timers : t.id = pb'.gifTimerRef /\ t.delay = frames[i + 1]
           /\ pb'.shown.by = "start" => i = 0
           \* the next frame comes when the timeout of the one before fires
           /\ pb'.shown.by = "timer" =>
                /\ Cardinality(pb.timers) = 1
                /\ pb.shown.frames = frames
                /\ i = (pb.shown.index + 1) % N]_vars

(***************************************************************************)
(* Specification of the component's exports: one file selection and room   *)
(* for one handleExport call more than in Spec, so that a click can follow *)
(* a run.  The promise of encodeGif settles.                                *)
(***************************************************************************)
InitExport ==
  /\ FrameOff /\ DecodeOff /\ EncodeOff /\ ColorOff /\ PlayOff
  /\ settings = InitialSettings
  /\ fileType = "null"
  /\ fileName = <<"">>
  /\ gifFrames = <<>>
  /\ dimensions = [w |-> 0, h |-> 0]
  /\ imageRef = NoImage
  /\ sourceCanvas = NullCanvas
  /\ resultCanvas = NullCanvas
  /\ processing = FALSE
  /\ loads = <<[pc |-> "idle"]>>
  /\ exports = [e \in 1..(MaxExports + 1) |-> [pc |-> "idle"]]
  /\ downloads = <<>>

\* the promise of encodeGif settles
EncodeSettles == \E e \in DOMAIN exports : ExportSettles(e)

SpecExport == InitExport /\ [][Next]_vars /\ WF_<<exports, processing>>(EncodeSettles)

inFlight(e) == exports[e].pc \in {"processing", "encoding"}

\* C25: every GIF export run that sets processing to true sets it back to
\* false once encodeGif settles, whether the run succeeds or fails: from the
\* call of encodeGif on, processing eventually becomes false, the step that
\* settles the run resets it, and it is never true without a run in flight
\* (so never left true after a failed export).
C25_ProcessingReset ==
  /\ []((\E e \in DOMAIN exports : exports[e].pc = "encoding") => <>(~processing))
  /\ [](processing => \E e \in DOMAIN exports : inFlight(e))
  /\ [][\A e \in DOMAIN exports :
          (exports[e].pc = "encoding" /\ exports'[e].pc \in {"done", "failed"})
            => ~processing']_<<exports, processing>>

\* an export has failed and the button is enabled again
C25_Witness ==
  /\ \E e \in DOMAIN exports : exports[e].pc = "failed"
  /\ ~processing
  /\ ~exportDisabled(fileType, processing)

\* C26: at most one GIF export run is in flight at any time, and downloadBlob
\* is called at most once per export click.
C26_OneExportInFlight ==
  /\ Cardinality({e \in DOMAIN exports : inFlight(e)}) <= 1
  /\ (\E e \in DOMAIN exports : inFlight(e)) => processing
  /\ Len(downloads) = Cardinality({e \in DOMAIN exports : exports[e].pc = "done"})

\* a second GIF export is in flight after the first was downloaded
C26_Witness ==
  /\ \E e \in DOMAIN exports : exports[e].pc = "done" /\ exports[e].kind = "gif"
  /\ \E e \in DOMAIN exports : exports[e].pc = "encoding"
  /\ Len(downloads) = 1

(***************************************************************************)
(* Claims on the loads of handleFile                                       *)
(***************************************************************************)
\* no handleFile call is waiting for its file
loadsSettled == \A n \in DOMAIN loads : loads[n].pc \notin {"decoding", "loading"}

\* the load of the file selected last (the slots are taken in order)
lastLoad ==
  CHOOSE n \in DOMAIN loads :
    loads[n].pc # "idle" /\ \A m \in DOMAIN loads : m > n => loads[m].pc = "idle"

\* frames are the frames parseGif returns for file, whatever the effect has
\* since written into their pixels
framesOf(frames, file) ==
  LET parse == parseGif(file.gif)
  IN  /\ file.type = "image/gif"
      /\ parse.status = "returned"
      /\ Len(frames) = Len(parse.frames)
      /\ \A i \in DOMAIN frames :
           /\ frames[i].delay = parse.frames[i].delay
           /\ frames[i].imageData.width = parse.frames[i].imageData.width
           /\ frames[i].imageData.height = parse.frames[i].imageData.height

\* nothing of any file is held
showsNothing ==
  /\ gifFrames = <<>>
  /\ imageRef = NoImage
  /\ dimensions = [w |-> 0, h |-> 0]

\* the state is the one the completed load of file leaves
showsGif(file) ==
  /\ fileName = file.name
  /\ framesOf(gifFrames, file)
  /\ sourceCanvas.kind = "drawn"
  /\ dimensions = [w |-> gifFrames[1].imageData.width, h |-> gifFrames[1].imageData.height]

showsImage(file) ==
  /\ fileName = file.name
  /\ gifFrames = <<>>
  /\ imageRef = file.name
  /\ sourceCanvas = [kind |-> "drawn", img |-> file.image]
  /\ dimensions = [w |-> file.image.width, h |-> file.image.height]

\* C27: once every pending load has completed, what is shown belongs to the
\* file selected last, whose name is in fileName; after a reset (or with no
\* file accepted) nothing of an earlier file is held.
C27_LastSelectionShown ==
  loadsSettled =>
    /\ fileType = "null" => showsNothing
    /\ (fileType = "gif" /\ loads[lastLoad].pc = "decoded") => showsGif(loads[lastLoad].file)
    /\ fileType = "image" => showsImage(loads[lastLoad].file)

\* fileType, fileName and gifFrames are all empty, or all describe one file
\* whose load completed
describesOneFile ==
  \/ fileType = "null" /\ fileName = <<"">> /\ gifFrames = <<>>
  \/ \E n \in DOMAIN loads :
       \/ /\ loads[n].pc = "decoded"
          /\ fileType = "gif"
          /\ fileName = loads[n].file.name
          /\ framesOf(gifFrames, loads[n].file)
       \/ /\ loads[n].pc = "loaded"
          /\ fileType = "image"
          /\ fileName = imageRef
          /\ gifFrames = <<>>

\* C28: when parseGif throws in a load, fileType, fileName and gifFrames
\* all still describe a previously loaded file or are all empty.
C28_FailedLoadLeavesState ==
  [][(\E n \in DOMAIN loads : loads[n].pc = "decoding" /\ loads'[n].pc = "failed")
       => describesOneFile']_vars

====
